---------------------------- MODULE Spec2Model ----------------------------
(***************************************************************************)
(* A model of the pure-computation core of the dive-log library:           *)
(*   - the Buhlmann ZHL-16C tissue simulation (core/src/buhlmann.rs),      *)
(*   - the formula evaluator (core/src/formula/evaluator.rs),              *)
(*   - the formula parser and facade (core/src/formula/parser.rs, mod.rs), *)
(*   - the dive and segment statistics (core/src/metrics.rs).              *)
(*                                                                         *)
(* f64 quantities of the tissue simulation are fixed-point integers:       *)
(*   pressures in 1/PScale bar, gas fractions, a/b coefficients and the    *)
(*   exponential factor in 1/FScale, gradient factors in 1/GfScale         *)
(*   percent.  Every division rounds down, as a stand-in for the rounding  *)
(*   of each floating-point operation.                                     *)
(***************************************************************************)
EXTENDS Integers, Sequences, FiniteSets, TLC

VARIABLES
    \* ---- compute_surface_gf (buhlmann.rs) ----
    gf_pc,          \* "idle" | "loop" | "done": position in compute_surface_gf
    samples,        \* argument: the sample slice
    gas_mixes,      \* argument: the gas table
    surface_p,      \* local surface_p (surface_pressure_bar after unwrap_or)
    gas_lookup,     \* local HashMap mix_index -> <<fO2, fHe>>
    current_fo2,    \* local
    current_fhe,    \* local
    tissues,        \* local TissueState: [p_n2, p_he], each an array of 16 pressures
    idx,            \* loop index of `for (idx, sample) in samples.iter().enumerate()`
    inspired,       \* locals p_inspired_n2 / p_inspired_he / dt_sec of the last
                    \* iteration that computed them (None before)
    results,        \* local Vec<SurfaceGfPoint>
    \* ---- evaluate (formula/evaluator.rs) ----
    ev_pc,          \* "idle" | "done": before and after a call of evaluate
    ev_expr,        \* argument expr
    ev_vars,        \* argument vars: the VariableProvider, a map name -> f64
    ev_out,         \* what the call returned, and the names it asked vars for
    \* ---- parse, validate, compute (formula/parser.rs, formula/mod.rs) ----
    fm_pc,          \* "idle" | "done": before and after a call
    fm_call,        \* the function called: "parse" | "validate" | "compute"
    fm_expression,  \* argument: the text
    fm_vars,        \* argument vars of compute
    fm_available,   \* argument available of validate_with_variables
    fm_out,         \* what the call returned, and the names it asked vars for
    \* ---- DiveStats::compute, SegmentStats::compute (metrics.rs) ----
    ms_pc,          \* "idle" | "done": before and after a call
    ms_call,        \* the function called
    ms_samples,     \* argument samples (all_samples of SegmentStats::compute)
    ms_start_t_sec, \* argument of SegmentStats::compute
    ms_end_t_sec,   \* argument of SegmentStats::compute
    ms_out,         \* the DiveStats or SegmentStats returned
    \* ---- calls of compute_surface_gf in flight together ----
    calls,          \* caller -> the arguments and local variables of its call
    \* ---- ensure_schema (migrations.rs) ----
    mg_pc,          \* "idle" | "loop" | "insert" | "commit": position in ensure_schema
    directory,      \* the file names in MIGRATIONS_DIR at the last read_dir
    database,       \* what is committed: the scripts run and schema_migrations
    current,        \* local current
    entries,        \* local entries, sorted
    entry,          \* position of the loop in entries
    tx,             \* local tx: the uncommitted database of the open transaction
    executed,       \* the files whose script this call has passed to execute_batch
    mg_calls,       \* the number of calls of ensure_schema so far
    mg_out          \* what the last call returned

gf_vars == <<gf_pc, samples, gas_mixes, surface_p, gas_lookup, current_fo2,
             current_fhe, tissues, idx, inspired, results>>

ev_state == <<ev_pc, ev_expr, ev_vars, ev_out>>

fm_state == <<fm_pc, fm_call, fm_expression, fm_vars, fm_available, fm_out>>

ms_state == <<ms_pc, ms_call, ms_samples, ms_start_t_sec, ms_end_t_sec, ms_out>>

mg_state == <<mg_pc, directory, database, current, entries, entry, tx, executed,
              mg_calls, mg_out>>

all_vars == <<gf_vars, ev_state, fm_state, ms_state, calls, mg_state>>

\* what a step of compute_surface_gf leaves alone, what a step of evaluate
\* leaves alone, and what a step of the formula facade leaves alone
outside_gf == <<ev_state, fm_state, ms_state, calls, mg_state>>

outside_ev == <<gf_vars, fm_state, ms_state, calls, mg_state>>

outside_fm == <<gf_vars, ev_state, ms_state, calls, mg_state>>

outside_ms == <<gf_vars, ev_state, fm_state, calls, mg_state>>

outside_calls == <<gf_vars, ev_state, fm_state, ms_state, mg_state>>

outside_mg == <<gf_vars, ev_state, fm_state, ms_state, calls>>

-----------------------------------------------------------------------------
(* Option<T> *)

None == [some |-> FALSE]

Some(x) == [some |-> TRUE, v |-> x]

-----------------------------------------------------------------------------
(* Fixed-point scales *)

\* pressure units per bar
PScale == 40000

\* units per 1.0 of a fraction, coefficient or exponential factor
FScale == 10000

\* gradient-factor units per percent
GfScale == 100

\* f32 keeps fewer digits than f64: one f32 step in gradient-factor units
F32Step == 10

-----------------------------------------------------------------------------
(* Physical constants, buhlmann.rs:14-71 *)

\* 0.0627 bar
P_WATER_VAPOR == 2508

\* 0.101325 bar/m
BAR_PER_METER == 4053

\* 1.01325 bar
DEFAULT_SURFACE_PRESSURE == 40530

\* 0.7902
AIR_FN2 == 7902

\* 0.2095
AIR_FO2 == 2095

NUM_COMPARTMENTS == 16

Compartments == 0 .. (NUM_COMPARTMENTS - 1)

\* an array [f64; NUM_COMPARTMENTS] holding f(i) for compartment i; tuples are
\* 1-based, so compartment i is element i + 1
ArrayOf(f(_)) ==
    <<f(0), f(1), f(2), f(3), f(4), f(5), f(6), f(7),
      f(8), f(9), f(10), f(11), f(12), f(13), f(14), f(15)>>

\* half-times in 1/100 minute, a and b in 1/FScale
N2_HALF_TIMES ==
    <<500, 800, 1250, 1850, 2700, 3830, 5430, 7700, 10900, 14600, 18700,
      23900, 30500, 39000, 49800, 63500>>

HE_HALF_TIMES ==
    <<188, 302, 472, 699, 1021, 1448, 2053, 2911, 4120, 5519, 7069, 9034,
      11529, 14742, 18824, 24003>>

A_N2 ==
    <<11696, 10000, 8618, 7562, 6200, 5043, 4410, 4000, 3750, 3500, 3295,
      3065, 2835, 2610, 2480, 2327>>

B_N2 ==
    <<5578, 6514, 7222, 7825, 8126, 8434, 8693, 8910, 9092, 9222, 9319, 9403,
      9477, 9544, 9602, 9653>>

A_HE ==
    <<16189, 13830, 11919, 10458, 9220, 8205, 7305, 6502, 5950, 5545, 5333,
      5189, 5181, 5176, 5172, 5119>>

B_HE ==
    <<4770, 5747, 6527, 7223, 7582, 7957, 8279, 8553, 8757, 8903, 8997, 9073,
      9122, 9171, 9217, 9267>>

-----------------------------------------------------------------------------
(* Arithmetic helpers *)

Max(a, b) == IF a >= b THEN a ELSE b

Min(a, b) == IF a <= b THEN a ELSE b

\* 2.0_f64.ln() in 1/1000000
LN2 == 693147

\* k * dt_sec in 1/FScale, for a half-time given in 1/100 minute:
\* k = ln 2 / (half_time * 60), buhlmann.rs:137 and :141
KTimesDt(half_time, dt_sec) == (LN2 * dt_sec) \div (half_time * 60)

\* the terms 1 - y + y^2/2 - ... of exp(-y), y in 1/FScale, y <= FScale / 2
RECURSIVE ExpSeries(_, _, _)
ExpSeries(y, term, k) ==
    IF term = 0 \/ k > 12 THEN 0
    ELSE LET next == (term * y) \div (FScale * k)
         IN  (IF k % 2 = 1 THEN -next ELSE next) + ExpSeries(y, next, k + 1)

\* x * x in 1/FScale
Square(x) == (x * x) \div FScale

\* f64::exp of -y, in 1/FScale, for y >= 0 in 1/FScale: the series below 1/2,
\* exp(-y) = exp(-y/2)^2 above
RECURSIVE ExpNeg(_)
ExpNeg(y) ==
    IF 2 * y > FScale
    THEN Square(ExpNeg(y \div 2))
    ELSE FScale + ExpSeries(y, FScale, 1)

\* floor((x + y) / d) for x, y >= 0 without forming x + y
SumDiv(x, y, d) == (x \div d) + (y \div d) + (((x % d) + (y % d)) \div d)

-----------------------------------------------------------------------------
(* TissueState, buhlmann.rs:103-185 *)

\* the 1e-10 guards of compartment_gf: below one pressure unit, so "> 1e-10"
\* is "> 0" on the fixed-point grid
EPSILON_GUARD == 0

surface_equilibrium(surface_pressure) ==
    LET p_n2_surface == ((surface_pressure - P_WATER_VAPOR) * AIR_FN2) \div FScale
        initial_n2(i) == p_n2_surface
        initial_he(i) == 0
    IN  [p_n2 |-> ArrayOf(initial_n2),
         p_he |-> ArrayOf(initial_he)]

\* a step with the sign of the difference reversed: it moves away from the
\* pressure before the step, past the inspired pressure
schreiner_overshoots(p_old, p_insp, half_time, dt_sec) ==
    p_insp - (((p_old - p_insp) * ExpNeg(KTimesDt(half_time, dt_sec))) \div FScale)

\* one Schreiner step of one gas of one compartment, buhlmann.rs:137-142
schreiner(p_old, p_insp, half_time, dt_sec) ==
    p_insp + (((p_old - p_insp) * ExpNeg(KTimesDt(half_time, dt_sec))) \div FScale)

update(self, dt_sec, p_inspired_n2, p_inspired_he) ==
    LET new_n2(i) ==
            schreiner(self.p_n2[i + 1], p_inspired_n2, N2_HALF_TIMES[i + 1], dt_sec)
        new_he(i) ==
            schreiner(self.p_he[i + 1], p_inspired_he, HE_HALF_TIMES[i + 1], dt_sec)
    IN  IF dt_sec <= 0 THEN self
        ELSE [p_n2 |-> ArrayOf(new_n2),
              p_he |-> ArrayOf(new_he)]

compartment_gf(self, i, ambient_pressure) ==
    LET p_n2 == self.p_n2[i + 1]
        p_he == self.p_he[i + 1]
        p_total == p_n2 + p_he
        weighted == p_total > EPSILON_GUARD
        a == IF weighted
             THEN SumDiv(A_N2[i + 1] * p_n2, A_HE[i + 1] * p_he, p_total)
             ELSE A_N2[i + 1]
        b == IF weighted
             THEN SumDiv(B_N2[i + 1] * p_n2, B_HE[i + 1] * p_he, p_total)
             ELSE B_N2[i + 1]
        \* a is in 1/FScale bar, pressures in 1/PScale bar
        m_surface == (a * (PScale \div FScale)) + ((ambient_pressure * FScale) \div b)
        denom == m_surface - ambient_pressure
    IN  IF denom > EPSILON_GUARD
        THEN ((p_total - ambient_pressure) * 100 * GfScale) \div denom
        ELSE 0

\* the gradient factors of the 16 compartments of a tissue state
compartment_gfs(self, ambient_pressure) ==
    LET gf(i) == compartment_gf(self, i, ambient_pressure)
    IN  ArrayOf(gf)

\* the loop of surface_gf_and_leading from compartment i on, over the gradient
\* factors gfs that compartment_gf returns
RECURSIVE gf_scan(_, _, _, _)
gf_scan(gfs, i, max_gf, leading) ==
    IF i >= NUM_COMPARTMENTS THEN <<max_gf, leading>>
    ELSE IF gfs[i + 1] > max_gf
         THEN gf_scan(gfs, i + 1, gfs[i + 1], i)
         ELSE gf_scan(gfs, i + 1, max_gf, leading)

\* a scan whose maximum starts at the gradient factor of compartment 0
surface_gf_and_leading_unclamped(self, surface_pressure) ==
    gf_scan(compartment_gfs(self, surface_pressure), 1,
            compartment_gfs(self, surface_pressure)[1], 0)

\* a scan that starts at compartment 1
surface_gf_and_leading_from1(self, surface_pressure) ==
    gf_scan(compartment_gfs(self, surface_pressure), 1, 0, 0)

surface_gf_and_leading(self, surface_pressure) ==
    gf_scan(compartment_gfs(self, surface_pressure), 0, 0, 0)

-----------------------------------------------------------------------------
(* compute_surface_gf, buhlmann.rs:202-266 *)

\* `sgf as f32`: the nearest f32 step
AsF32(x) == ((x + (F32Step \div 2)) \div F32Step) * F32Step

\* `leading as u8`
AsU8(n) == n % 256

\* the HashMap built by inserting the mixes in order: a later mix with the
\* same mix_index overwrites the earlier one
RECURSIVE build_lookup(_, _)
build_lookup(mixes, n) ==
    IF n = 0 THEN << >>
    ELSE LET before == build_lookup(mixes, n - 1)
             mix == mixes[n]
         IN  [k \in (DOMAIN before) \cup {mix.mix_index} |->
                IF k = mix.mix_index THEN <<mix.o2_fraction, mix.he_fraction>>
                ELSE before[k]]

lookup_get(lookup, k) == IF k \in DOMAIN lookup THEN Some(lookup[k]) ELSE None

\* gas_lookup.get(&0).copied().unwrap_or((AIR_FO2, 0.0))
default_gas(lookup) ==
    IF lookup_get(lookup, 0).some THEN lookup_get(lookup, 0).v ELSE <<AIR_FO2, 0>>

\* (sample.t_sec - samples[idx - 1].t_sec) as f64; idx is 0-based, ss is 1-based
dt_sec_at(ss, i) == ss[i + 1].t_sec - ss[i].t_sec

\* surface_p + avg_depth_m * BAR_PER_METER with
\* avg_depth_m = ((previous depth + depth) / 2).max(0)
ambient_p_at(ss, i, sp) ==
    sp + ((Max(ss[i].depth_m + ss[i + 1].depth_m, 0) * BAR_PER_METER) \div 2)

\* fn2 = (1.0 - current_fo2 - current_fhe).max(0.0)
fn2_of(fo2, fhe) == Max(FScale - fo2 - fhe, 0)

p_inspired(ambient_p, fraction) == ((ambient_p - P_WATER_VAPOR) * fraction) \div FScale

\* the locals of the `if idx > 0` block for the interval ending at sample i
interval_at(ss, i, sp, fo2, fhe) ==
    [dt_sec |-> dt_sec_at(ss, i),
     n2 |-> p_inspired(ambient_p_at(ss, i, sp), fn2_of(fo2, fhe)),
     he |-> p_inspired(ambient_p_at(ss, i, sp), fhe)]

\* a gas switch that falls back to the default gas when the index is given
\* but does not resolve
switch_gas_reset(cur, sample, lookup) ==
    IF sample.gasmix_index.some
    THEN IF lookup_get(lookup, sample.gasmix_index.v).some
         THEN lookup_get(lookup, sample.gasmix_index.v).v
         ELSE default_gas(lookup)
    ELSE cur

\* the gas switch of lines 249-254: the new <<current_fo2, current_fhe>>
switch_gas(cur, sample, lookup) ==
    IF sample.gasmix_index.some /\ lookup_get(lookup, sample.gasmix_index.v).some
    THEN lookup_get(lookup, sample.gasmix_index.v).v
    ELSE cur

\* the SurfaceGfPoint pushed for a sample
make_point(sample, ts, sp) ==
    LET r == surface_gf_and_leading(ts, sp)
    IN  [t_sec |-> sample.t_sec,
         surface_gf |-> AsF32(r[1]),
         leading_compartment |-> AsU8(r[2])]

-----------------------------------------------------------------------------
(* The calls of compute_surface_gf that are explored *)

\* the longest sample slice
MaxSamples == 3

\* time offsets are seconds from the start of the dive (not negative); they
\* may repeat or decrease along a slice
SampleTimes == {0, 1200}

SampleDepths == {0, 30}

SampleGasIndexes == {None, Some(0), Some(1)}

\* the fields of SampleInput that compute_surface_gf reads
SampleInputs ==
    [t_sec : SampleTimes, depth_m : SampleDepths, gasmix_index : SampleGasIndexes]

\* trimix 21/35, EAN50 and EAN32
Trimix == [mix_index |-> 0, o2_fraction |-> 2100, he_fraction |-> 3500]

Ean50 == [mix_index |-> 1, o2_fraction |-> 5000, he_fraction |-> 0]

Ean32 == [mix_index |-> 1, o2_fraction |-> 3200, he_fraction |-> 0]

\* no table, a table with indexes 0 and 1, and a table without index 0 that
\* names index 1 twice
GasTables == {<< >>, <<Trimix, Ean50>>, <<Ean50, Ean32>>}

\* sea level by default, or 0.82 bar (altitude)
SurfacePressures == {None, Some(32800)}

SampleSlices == UNION {[1 .. n -> SampleInputs] : n \in 0 .. MaxSamples}

-----------------------------------------------------------------------------
(* Actions of compute_surface_gf *)

\* a call that starts the tissues at equilibrium with the ambient pressure of
\* the first sample instead of the surface pressure
GfCallAtDepth(ss, mixes, surface_pressure_bar) ==
    /\ gf_pc = "idle"
    /\ samples' = ss
    /\ gas_mixes' = mixes
    /\ results' = << >>
    /\ UNCHANGED outside_gf
    /\ IF ss = << >>
       THEN /\ gf_pc' = "done"
            /\ UNCHANGED <<surface_p, gas_lookup, current_fo2, current_fhe,
                           tissues, idx, inspired>>
       ELSE LET sp == IF surface_pressure_bar.some THEN surface_pressure_bar.v
                      ELSE DEFAULT_SURFACE_PRESSURE
                lookup == build_lookup(mixes, Len(mixes))
            IN  /\ gf_pc' = "loop"
                /\ surface_p' = sp
                /\ tissues' = surface_equilibrium(sp + (ss[1].depth_m * BAR_PER_METER))
                /\ gas_lookup' = lookup
                /\ current_fo2' = default_gas(lookup)[1]
                /\ current_fhe' = default_gas(lookup)[2]
                /\ idx' = 0
                /\ inspired' = None

\* lines 202-226: the call, up to the loop (or the early return for an empty
\* slice)
GfCall(ss, mixes, surface_pressure_bar) ==
    /\ gf_pc = "idle"
    /\ samples' = ss
    /\ gas_mixes' = mixes
    /\ results' = << >>
    /\ UNCHANGED outside_gf
    /\ IF ss = << >>
       THEN /\ gf_pc' = "done"
            /\ UNCHANGED <<surface_p, gas_lookup, current_fo2, current_fhe,
                           tissues, idx, inspired>>
       ELSE LET sp == IF surface_pressure_bar.some THEN surface_pressure_bar.v
                      ELSE DEFAULT_SURFACE_PRESSURE
                lookup == build_lookup(mixes, Len(mixes))
            IN  /\ gf_pc' = "loop"
                /\ surface_p' = sp
                /\ tissues' = surface_equilibrium(sp)
                /\ gas_lookup' = lookup
                /\ current_fo2' = default_gas(lookup)[1]
                /\ current_fhe' = default_gas(lookup)[2]
                /\ idx' = 0
                /\ inspired' = None

\* an iteration that pushes no point for a sample whose time offset does not
\* advance
GfIterateSkipRepeats ==
    /\ gf_pc = "loop"
    /\ idx < Len(samples)
    /\ LET sample == samples[idx + 1]
           iv == interval_at(samples, idx, surface_p, current_fo2, current_fhe)
           ts == IF idx > 0 THEN update(tissues, iv.dt_sec, iv.n2, iv.he) ELSE tissues
           cur == switch_gas(<<current_fo2, current_fhe>>, sample, gas_lookup)
       IN  /\ tissues' = ts
           /\ inspired' = IF idx > 0 THEN Some(iv) ELSE inspired
           /\ current_fo2' = cur[1]
           /\ current_fhe' = cur[2]
           /\ results' = IF idx > 0 /\ iv.dt_sec <= 0 THEN results
                         ELSE Append(results, make_point(sample, ts, surface_p))
           /\ idx' = idx + 1
    /\ UNCHANGED <<gf_pc, samples, gas_mixes, surface_p, gas_lookup>>
    /\ UNCHANGED outside_gf

\* lines 228-263: one iteration of the loop, for sample idx
GfIterate ==
    /\ gf_pc = "loop"
    /\ idx < Len(samples)
    /\ LET sample == samples[idx + 1]
           iv == interval_at(samples, idx, surface_p, current_fo2, current_fhe)
           ts == IF idx > 0 THEN update(tissues, iv.dt_sec, iv.n2, iv.he) ELSE tissues
           cur == switch_gas(<<current_fo2, current_fhe>>, sample, gas_lookup)
       IN  /\ tissues' = ts
           /\ inspired' = IF idx > 0 THEN Some(iv) ELSE inspired
           /\ current_fo2' = cur[1]
           /\ current_fhe' = cur[2]
           /\ results' = Append(results, make_point(sample, ts, surface_p))
           /\ idx' = idx + 1
    /\ UNCHANGED <<gf_pc, samples, gas_mixes, surface_p, gas_lookup>>
    /\ UNCHANGED outside_gf

\* line 265: the loop is over, results is returned
GfReturn ==
    /\ gf_pc = "loop"
    /\ idx = Len(samples)
    /\ gf_pc' = "done"
    /\ UNCHANGED <<samples, gas_mixes, surface_p, gas_lookup, current_fo2,
                   current_fhe, tissues, idx, inspired, results>>
    /\ UNCHANGED outside_gf

GfInit ==
    /\ gf_pc = "idle"
    /\ samples = << >>
    /\ gas_mixes = << >>
    /\ surface_p = 0
    /\ gas_lookup = << >>
    /\ current_fo2 = 0
    /\ current_fhe = 0
    /\ tissues = None
    /\ idx = 0
    /\ inspired = None
    /\ results = << >>

GfNext ==
    \/ /\ gf_pc = "idle"
       /\ \E ss \in SampleSlices, mixes \in GasTables, sp \in SurfacePressures :
             GfCall(ss, mixes, sp)
    \/ GfIterate
    \/ GfReturn

-----------------------------------------------------------------------------
(* Claims about compute_surface_gf *)

\* the call has started its loop or has returned
GfRunning == gf_pc \in {"loop", "done"}

\* C1: compute_surface_gf returns one point per input sample, in input
\* order, point k carrying the t_sec of sample k; an empty slice gives an
\* empty result.  While the loop runs the points pushed so far are those of
\* the samples already visited.
C1_OnePointPerSample ==
    /\ gf_pc = "loop" => Len(results) = idx
    /\ gf_pc = "done" => Len(results) = Len(samples)
    /\ GfRunning =>
         \A k \in 1 .. Len(results) :
            k <= Len(samples) /\ results[k].t_sec = samples[k].t_sec

\* a returned call on three samples whose time offsets decrease, then repeat
C1_Witness ==
    /\ gf_pc = "done"
    /\ Len(samples) = 3
    /\ samples[2].t_sec < samples[1].t_sec
    /\ samples[3].t_sec = samples[2].t_sec
    /\ Len(results) = 3

\* the entry of the gas table that a mix index resolves to: the last one with
\* that index
TableEntry(mixes, k) ==
    LET at == CHOOSE n \in 1 .. Len(mixes) :
                 /\ mixes[n].mix_index = k
                 /\ \A m \in (n + 1) .. Len(mixes) : mixes[m].mix_index # k
    IN  <<mixes[at].o2_fraction, mixes[at].he_fraction>>

InTable(mixes, k) == \E n \in 1 .. Len(mixes) : mixes[n].mix_index = k

\* sample j (0-based) carries a gas index that resolves in the table
Resolves(ss, mixes, j) ==
    /\ ss[j + 1].gasmix_index.some
    /\ InTable(mixes, ss[j + 1].gasmix_index.v)

\* the gas breathed during the interval ending at sample i (0-based, i >= 1):
\* that of the most recent earlier sample that resolves, else the default gas
\* (mix 0 of the table, air without it)
ActiveGas(ss, mixes, i) ==
    LET earlier == {j \in 0 .. (i - 1) : Resolves(ss, mixes, j)}
    IN  IF earlier # {}
        THEN LET j == CHOOSE x \in earlier : \A y \in earlier : y <= x
             IN  TableEntry(mixes, ss[j + 1].gasmix_index.v)
        ELSE IF InTable(mixes, 0) THEN TableEntry(mixes, 0)
        ELSE <<AIR_FO2, 0>>

\* C2: the inspired pressures of the interval ending at sample i >= 1 are
\* computed from the gas of the most recent sample j < i whose index is
\* present and resolves, else from the default gas, which is air for an
\* empty table; sample i's own index plays no part, and an index that is
\* missing or does not resolve changes nothing.
C2_IntervalUsesPreviousGas ==
    (GfRunning /\ idx >= 2) =>
        LET i == idx - 1
            gas == ActiveGas(samples, gas_mixes, i)
            ambient == ambient_p_at(samples, i, surface_p)
        IN  /\ inspired.some
            /\ inspired.v.dt_sec = samples[i + 1].t_sec - samples[i].t_sec
            /\ inspired.v.n2 = p_inspired(ambient, Max(FScale - gas[1] - gas[2], 0))
            /\ inspired.v.he = p_inspired(ambient, gas[2])
            /\ (gas_mixes = << >>) => (gas = <<2095, 0>>)

\* three samples: the first switches to EAN50, the second names an index the
\* table lacks, the third names the trimix; the interval ending at the third
\* took time and was breathed on EAN50 (no helium)
C2_Witness ==
    /\ gf_pc = "done"
    /\ gas_mixes = <<Ean50, Ean32>>
    /\ Len(samples) = 3
    /\ samples[1].gasmix_index = Some(1)
    /\ samples[2].gasmix_index = Some(0)
    /\ samples[3].gasmix_index = Some(1)
    /\ samples[3].t_sec > samples[2].t_sec
    /\ inspired.some
    /\ inspired.v.he = 0
    /\ inspired.v.n2 = p_inspired(ambient_p_at(samples, 2, surface_p), 6800)

\* the greatest element of an array
MaxOf(f) == CHOOSE g \in {f[n] : n \in DOMAIN f} : \A n \in DOMAIN f : f[n] <= g

\* the lowest compartment index whose element is g
LowestAt(f, g) ==
    CHOOSE i \in Compartments :
        f[i + 1] = g /\ \A j \in Compartments : j < i => f[j + 1] # g

\* C3 as stated: the surface_gf of the point of a sample is the maximum of the
\* 16 compartment gradient factors of the tissue state at that sample (as an
\* f32), and leading_compartment the lowest index that attains it.
C3_Original ==
    (GfRunning /\ Len(results) >= 1) =>
        LET point == results[Len(results)]
            gfs == compartment_gfs(tissues, surface_p)
            max == MaxOf(gfs)
        IN  /\ point.surface_gf = AsF32(max)
            /\ point.leading_compartment = LowestAt(gfs, max)

\* C3 amended: when the maximum of the 16 compartment gradient factors is
\* above 0, surface_gf is that maximum (as an f32) and leading_compartment the
\* lowest index that attains it; when no compartment is above 0, surface_gf is
\* 0 and leading_compartment is 0.
C3_MaxClampedAtZero ==
    (GfRunning /\ Len(results) >= 1) =>
        LET point == results[Len(results)]
            gfs == compartment_gfs(tissues, surface_p)
            max == MaxOf(gfs)
        IN  IF max > 0
            THEN /\ point.surface_gf = AsF32(max)
                 /\ point.leading_compartment = LowestAt(gfs, max)
            ELSE /\ point.surface_gf = 0
                 /\ point.leading_compartment = 0

\* a point whose leading compartment is not the first one
C3_Witness ==
    /\ GfRunning
    /\ Len(results) >= 1
    /\ results[Len(results)].surface_gf > 0
    /\ results[Len(results)].leading_compartment > 0

\* the point of a tissue state at surface equilibrium, by surface pressure
EquilibriumPoint(sp) ==
    LET r == surface_gf_and_leading(surface_equilibrium(sp), sp)
    IN  <<AsF32(r[1]), AsU8(r[2])>>

\* C4: the first point is that of the initial surface-equilibrium state: its
\* surface_gf and leading_compartment are a function of the surface pressure
\* alone, whatever the first sample and the gas table are.
C4_FirstPointFromEquilibrium ==
    (GfRunning /\ Len(results) >= 1) =>
        LET expected == EquilibriumPoint(surface_p)
        IN  /\ results[1].surface_gf = expected[1]
            /\ results[1].leading_compartment = expected[2]

\* a first sample at depth, late, with a gas index that resolves
C4_Witness ==
    /\ GfRunning
    /\ Len(results) >= 1
    /\ samples[1].depth_m = 30
    /\ samples[1].t_sec = 1200
    /\ samples[1].gasmix_index = Some(0)
    /\ gas_mixes = <<Trimix, Ean50>>
    /\ surface_p = 32800

-----------------------------------------------------------------------------
(* f64 of the formula engine: decimal floating point.  A value is NaN, an   *)
(* infinity, or finite (-1)^neg * m * 10^e with a mantissa m of at most     *)
(* Digits significant digits and no trailing zero; zero is m = 0, e = 0 and *)
(* keeps its sign.  Results are rounded to Digits digits.                   *)

\* significant decimal digits kept by an operation
Digits == 4

\* 10^Digits
MantissaLimit == 10000

\* decimal exponent of the largest finite f64 (1.797e308) and of the smallest
\* positive one (4.9e-324)
MAX_10_EXP == 308

MIN_10_EXP == -324

RECURSIVE Pow10(_)
Pow10(n) == IF n <= 0 THEN 1 ELSE 10 * Pow10(n - 1)

\* the number of decimal digits of m >= 1
RECURSIVE NumDigits(_)
NumDigits(m) == IF m < 10 THEN 1 ELSE 1 + NumDigits(m \div 10)

NaN == [k |-> "nan"]

Infinity(neg) == [k |-> "inf", neg |-> neg]

Zero(neg) == [k |-> "fin", neg |-> neg, m |-> 0, e |-> 0]

\* the f64 nearest to (-1)^neg * m * 10^e, for m >= 0: the mantissa is rounded
\* (half up) to Digits digits; a magnitude above the largest finite value
\* becomes an infinity, one below the smallest positive value a zero
RECURSIVE F64(_, _, _)
F64(neg, m, e) ==
    IF m = 0 THEN Zero(neg)
    ELSE IF m >= MantissaLimit
    THEN F64(neg, (m \div 10) + (IF m % 10 >= 5 THEN 1 ELSE 0), e + 1)
    ELSE IF m % 10 = 0 THEN F64(neg, m \div 10, e + 1)
    ELSE IF e + NumDigits(m) - 1 > MAX_10_EXP THEN Infinity(neg)
    ELSE IF e + NumDigits(m) - 1 < MIN_10_EXP THEN Zero(neg)
    ELSE [k |-> "fin", neg |-> neg, m |-> m, e |-> e]

\* an integer as an f64
FromInt(n) == IF n < 0 THEN F64(TRUE, -n, 0) ELSE F64(FALSE, n, 0)

is_nan(x) == x.k = "nan"

IsZero(x) == x.k = "fin" /\ x.m = 0

\* the decimal order of magnitude of a finite non-zero value
Order(x) == x.e + NumDigits(x.m)

\* -1, 0 or 1 as |a| is below, equal to or above |b|, for finite non-zero a, b
CmpMag(a, b) ==
    IF Order(a) # Order(b) THEN (IF Order(a) < Order(b) THEN -1 ELSE 1)
    ELSE LET lo == IF a.e < b.e THEN a.e ELSE b.e
             x == a.m * Pow10(a.e - lo)
             y == b.m * Pow10(b.e - lo)
         IN  IF x < y THEN -1 ELSE IF x = y THEN 0 ELSE 1

\* the sign of a finite value: -1, 0 (either zero) or 1
Sgn(x) == IF x.m = 0 THEN 0 ELSE IF x.neg THEN -1 ELSE 1

\* -1, 0 or 1 as a is below, equal to or above b, for a and b that are not
\* NaN; 0.0 and -0.0 are equal
Cmp(a, b) ==
    IF a.k = "inf"
    THEN (IF b.k = "inf" /\ b.neg = a.neg THEN 0 ELSE IF a.neg THEN -1 ELSE 1)
    ELSE IF b.k = "inf" THEN (IF b.neg THEN 1 ELSE -1)
    ELSE IF Sgn(a) # Sgn(b) THEN (IF Sgn(a) < Sgn(b) THEN -1 ELSE 1)
    ELSE IF Sgn(a) = 0 THEN 0
    ELSE Sgn(a) * CmpMag(a, b)

\* the comparison operators of f64: every comparison with NaN is false,
\* except !=
f64_eq(a, b) == ~is_nan(a) /\ ~is_nan(b) /\ Cmp(a, b) = 0

f64_ne(a, b) == ~f64_eq(a, b)

f64_lt(a, b) == ~is_nan(a) /\ ~is_nan(b) /\ Cmp(a, b) < 0

f64_gt(a, b) == ~is_nan(a) /\ ~is_nan(b) /\ Cmp(a, b) > 0

f64_le(a, b) == ~is_nan(a) /\ ~is_nan(b) /\ Cmp(a, b) <= 0

f64_ge(a, b) == ~is_nan(a) /\ ~is_nan(b) /\ Cmp(a, b) >= 0

\* -x
f64_neg(x) == IF is_nan(x) THEN x ELSE [x EXCEPT !.neg = ~x.neg]

\* x.abs()
f64_abs(x) == IF is_nan(x) THEN x ELSE [x EXCEPT !.neg = FALSE]

\* the sum of two finite non-zero values; the smaller one is lost when it
\* lies beyond the digits of the larger
AddFinite(a, b) ==
    IF Order(a) - Order(b) > Digits + 1 THEN a
    ELSE IF Order(b) - Order(a) > Digits + 1 THEN b
    ELSE LET lo == IF a.e < b.e THEN a.e ELSE b.e
             x == Sgn(a) * a.m * Pow10(a.e - lo)
             y == Sgn(b) * b.m * Pow10(b.e - lo)
         IN  IF x + y < 0 THEN F64(TRUE, -(x + y), lo) ELSE F64(FALSE, x + y, lo)

\* a + b
f64_add(a, b) ==
    IF is_nan(a) \/ is_nan(b) THEN NaN
    ELSE IF a.k = "inf"
         THEN (IF b.k = "inf" /\ b.neg # a.neg THEN NaN ELSE a)
    ELSE IF b.k = "inf" THEN b
    ELSE IF IsZero(a) /\ IsZero(b) THEN Zero(a.neg /\ b.neg)
    ELSE IF IsZero(a) THEN b
    ELSE IF IsZero(b) THEN a
    ELSE AddFinite(a, b)

\* a - b
f64_sub(a, b) == f64_add(a, f64_neg(b))

\* a * b
f64_mul(a, b) ==
    IF is_nan(a) \/ is_nan(b) THEN NaN
    ELSE IF a.k = "inf" \/ b.k = "inf"
         THEN (IF IsZero(a) \/ IsZero(b) THEN NaN ELSE Infinity(a.neg # b.neg))
    ELSE F64(a.neg # b.neg, a.m * b.m, a.e + b.e)

\* a / b
f64_div(a, b) ==
    IF is_nan(a) \/ is_nan(b) THEN NaN
    ELSE IF a.k = "inf"
         THEN (IF b.k = "inf" THEN NaN ELSE Infinity(a.neg # b.neg))
    ELSE IF b.k = "inf" THEN Zero(a.neg # b.neg)
    ELSE IF IsZero(b)
         THEN (IF IsZero(a) THEN NaN ELSE Infinity(a.neg # b.neg))
    ELSE F64(a.neg # b.neg, (a.m * Pow10(Digits + 1)) \div b.m, a.e - b.e - (Digits + 1))

\* a.min(b) and a.max(b): a NaN operand is ignored
f64_min(a, b) ==
    IF is_nan(a) THEN b ELSE IF is_nan(b) THEN a
    ELSE IF Cmp(a, b) <= 0 THEN a ELSE b

f64_max(a, b) ==
    IF is_nan(a) THEN b ELSE IF is_nan(b) THEN a
    ELSE IF Cmp(a, b) >= 0 THEN a ELSE b

\* the integer part of |x| for a finite x with a fraction (e < 0)
IntPart(x) == IF -x.e > Digits THEN 0 ELSE x.m \div Pow10(-x.e)

\* the fraction of |x| is at least one half, for a finite x with e < 0
AtLeastHalf(x) ==
    /\ -x.e <= Digits
    /\ 2 * (x.m % Pow10(-x.e)) >= Pow10(-x.e)

\* x.floor()
f64_floor(x) ==
    IF x.k # "fin" \/ x.e >= 0 THEN x
    ELSE IF x.neg THEN F64(TRUE, IntPart(x) + 1, 0)
    ELSE F64(FALSE, IntPart(x), 0)

\* x.ceil()
f64_ceil(x) ==
    IF x.k # "fin" \/ x.e >= 0 THEN x
    ELSE IF x.neg THEN F64(TRUE, IntPart(x), 0)
    ELSE F64(FALSE, IntPart(x) + 1, 0)

\* x.round(): half-way cases away from zero
f64_round(x) ==
    IF x.k # "fin" \/ x.e >= 0 THEN x
    ELSE F64(x.neg, IF AtLeastHalf(x) THEN IntPart(x) + 1 ELSE IntPart(x), 0)

\* the largest r in lo .. hi with r * r <= n
RECURSIVE ISqrtBetween(_, _, _)
ISqrtBetween(n, lo, hi) ==
    IF lo >= hi THEN lo
    ELSE LET mid == (lo + hi + 1) \div 2
         IN  IF mid * mid <= n THEN ISqrtBetween(n, mid, hi)
             ELSE ISqrtBetween(n, lo, mid - 1)

\* x.sqrt()
f64_sqrt(x) ==
    IF is_nan(x) THEN NaN
    ELSE IF IsZero(x) THEN x
    ELSE IF x.neg THEN NaN
    ELSE IF x.k = "inf" THEN x
    ELSE LET shift == IF x.e % 2 = 0 THEN Digits ELSE Digits + 1
         IN  F64(FALSE, ISqrtBetween(x.m * Pow10(shift), 0, 32000),
                 (x.e - shift) \div 2)

\* 10_f64.powi(n)
powi10(n) == F64(FALSE, 1, n)

\* i32::MAX; i32::MIN is -I32_MAX - 1
I32_MAX == 2147483647

\* `x as i32`: truncates toward zero, saturates, and maps NaN to 0
as_i32(x) ==
    IF is_nan(x) THEN 0
    ELSE IF x.k = "inf" THEN (IF x.neg THEN -I32_MAX - 1 ELSE I32_MAX)
    ELSE IF x.e < 0 THEN (IF x.neg THEN -IntPart(x) ELSE IntPart(x))
    ELSE IF x.e > 9 \/ x.m > I32_MAX \div Pow10(x.e)
         THEN (IF x.neg THEN -I32_MAX - 1 ELSE I32_MAX)
    ELSE IF x.neg THEN -(x.m * Pow10(x.e)) ELSE x.m * Pow10(x.e)

\* f64::EPSILON, 2.220446049250313e-16
EPSILON == F64(FALSE, 2220, -19)

-----------------------------------------------------------------------------
(* Strings: a String is a TLA+ string, a char a string of length 1 *)

CharAt(s, i) == SubSeq(s, i, i)

ASCII_UPPERCASE == "ABCDEFGHIJKLMNOPQRSTUVWXYZ"

ASCII_LOWERCASE == "abcdefghijklmnopqrstuvwxyz"

\* the position of char c in string s, 0 when it is absent
IndexOf(s, c) ==
    IF \E i \in 1 .. Len(s) : CharAt(s, i) = c
    THEN CHOOSE i \in 1 .. Len(s) : CharAt(s, i) = c
    ELSE 0

\* the chars of a string
Chars(s) == {CharAt(s, i) : i \in 1 .. Len(s)}

UppercaseChars == Chars(ASCII_UPPERCASE)

LowercaseChars == Chars(ASCII_LOWERCASE)

DigitChars == Chars("0123456789")

\* char::to_lowercase, for the ASCII chars of the model
char_to_lowercase(c) ==
    IF c \in UppercaseChars
    THEN CharAt(ASCII_LOWERCASE, IndexOf(ASCII_UPPERCASE, c))
    ELSE c

\* str::to_lowercase
RECURSIVE to_lowercase(_)
to_lowercase(s) ==
    IF s = "" THEN ""
    ELSE char_to_lowercase(CharAt(s, 1)) \o to_lowercase(SubSeq(s, 2, Len(s)))

-----------------------------------------------------------------------------
(* Expr (formula/ast.rs), FormulaError (error.rs), Value (evaluator.rs) *)

Number(n) == [type |-> "Number", n |-> n]

Boolean(b) == [type |-> "Boolean", b |-> b]

Variable(name) == [type |-> "Variable", name |-> name]

Binary(op, left, right) ==
    [type |-> "Binary", op |-> op, left |-> left, right |-> right]

Unary(op, expr) == [type |-> "Unary", op |-> op, expr |-> expr]

FunctionCall(name, args) == [type |-> "FunctionCall", name |-> name, args |-> args]

Ternary(condition, then_expr, else_expr) ==
    [type |-> "Ternary", condition |-> condition, then_expr |-> then_expr,
     else_expr |-> else_expr]

BinaryOp ==
    {"Add", "Sub", "Mul", "Div", "Gt", "Lt", "Gte", "Lte", "Eq", "Neq", "And", "Or"}

UnaryOp == {"Neg", "Not"}

ParseError(position, message) ==
    [error |-> "ParseError", position |-> position, message |-> message]

UnknownVariable(name) == [error |-> "UnknownVariable", name |-> name]

UnknownFunction(name) == [error |-> "UnknownFunction", name |-> name]

DivisionByZero == [error |-> "DivisionByZero"]

InvalidArgCount(function, expected, got) ==
    [error |-> "InvalidArgCount", function |-> function, expected |-> expected,
     got |-> got]

EmptyExpression == [error |-> "EmptyExpression"]

\* Result<T, FormulaError>
Ok(v) == [ok |-> TRUE, v |-> v]

Err(e) == [ok |-> FALSE, err |-> e]

ValueNumber(n) == [type |-> "Number", n |-> n]

ValueBoolean(b) == [type |-> "Boolean", b |-> b]

\* Value::as_number; it returns Ok in both arms, so the f64 stands for the
\* Result
as_number(self) ==
    IF self.type = "Number" THEN self.n
    ELSE IF self.b THEN FromInt(1) ELSE Zero(FALSE)

\* a number is true when it is a number other than zero: NaN is false
as_bool_nan_is_false(self) ==
    IF self.type = "Boolean" THEN self.b
    ELSE ~is_nan(self.n) /\ f64_ne(self.n, Zero(FALSE))

\* Value::as_bool; Ok in both arms as well
as_bool(self) ==
    IF self.type = "Boolean" THEN self.b ELSE f64_ne(self.n, Zero(FALSE))

is_truthy(self) ==
    IF self.type = "Boolean" THEN self.b ELSE f64_ne(self.n, Zero(FALSE))

-----------------------------------------------------------------------------
(* evaluate_binary, evaluate_unary, evaluate_function, supported_functions *)

\* a division that fails only for a divisor whose bits are those of 0.0
arm_Div_positive_zero(left, right) ==
    IF as_number(right) = Zero(FALSE) THEN Err(DivisionByZero)
    ELSE Ok(ValueNumber(f64_div(as_number(left), as_number(right))))

\* the BinaryOp::Div arm of evaluate_binary, lines 103-111
arm_Div(left, right) ==
    IF f64_eq(as_number(right), Zero(FALSE)) THEN Err(DivisionByZero)
    ELSE Ok(ValueNumber(f64_div(as_number(left), as_number(right))))

evaluate_binary(op, left, right) ==
    LET l == as_number(left)
        r == as_number(right)
    IN  CASE op = "Add" -> Ok(ValueNumber(f64_add(l, r)))
          [] op = "Sub" -> Ok(ValueNumber(f64_sub(l, r)))
          [] op = "Mul" -> Ok(ValueNumber(f64_mul(l, r)))
          [] op = "Div" -> arm_Div(left, right)
          [] op = "Gt" -> Ok(ValueBoolean(f64_gt(l, r)))
          [] op = "Lt" -> Ok(ValueBoolean(f64_lt(l, r)))
          [] op = "Gte" -> Ok(ValueBoolean(f64_ge(l, r)))
          [] op = "Lte" -> Ok(ValueBoolean(f64_le(l, r)))
          [] op = "Eq" -> Ok(ValueBoolean(f64_lt(f64_abs(f64_sub(l, r)), EPSILON)))
          [] op = "Neq" -> Ok(ValueBoolean(f64_ge(f64_abs(f64_sub(l, r)), EPSILON)))
          [] op = "And" -> Ok(ValueBoolean(as_bool(left) /\ as_bool(right)))
          [] op = "Or" -> Ok(ValueBoolean(as_bool(left) \/ as_bool(right)))

evaluate_unary(op, val) ==
    CASE op = "Neg" -> Ok(ValueNumber(f64_neg(as_number(val))))
      [] op = "Not" -> Ok(ValueBoolean(~as_bool(val)))

\* the arity check that opens the arm of each built-in
wrong_arg_count(function, expected, args) ==
    Err(InvalidArgCount(function, expected, Len(args)))

\* the `round` arm after its arity check, lines 202-205
round_to(x, n) ==
    LET decimals == as_i32(n)
        factor == powi10(decimals)
    IN  f64_div(f64_round(f64_mul(x, factor)), factor)

\* the match of evaluate_function on the lower-cased name, lines 169-267;
\* name is the name as written in the call
match_function(lowered, name, args) ==
    CASE lowered = "min" ->
            IF Len(args) # 2 THEN wrong_arg_count("min", 2, args)
            ELSE Ok(ValueNumber(f64_min(as_number(args[1]), as_number(args[2]))))
      [] lowered = "max" ->
            IF Len(args) # 2 THEN wrong_arg_count("max", 2, args)
            ELSE Ok(ValueNumber(f64_max(as_number(args[1]), as_number(args[2]))))
      [] lowered = "round" ->
            IF Len(args) # 2 THEN wrong_arg_count("round", 2, args)
            ELSE Ok(ValueNumber(round_to(as_number(args[1]), as_number(args[2]))))
      [] lowered = "abs" ->
            IF Len(args) # 1 THEN wrong_arg_count("abs", 1, args)
            ELSE Ok(ValueNumber(f64_abs(as_number(args[1]))))
      [] lowered = "sqrt" ->
            IF Len(args) # 1 THEN wrong_arg_count("sqrt", 1, args)
            ELSE Ok(ValueNumber(f64_sqrt(as_number(args[1]))))
      [] lowered = "floor" ->
            IF Len(args) # 1 THEN wrong_arg_count("floor", 1, args)
            ELSE Ok(ValueNumber(f64_floor(as_number(args[1]))))
      [] lowered = "ceil" ->
            IF Len(args) # 1 THEN wrong_arg_count("ceil", 1, args)
            ELSE Ok(ValueNumber(f64_ceil(as_number(args[1]))))
      [] lowered = "if" ->
            IF Len(args) # 3 THEN wrong_arg_count("if", 3, args)
            ELSE IF as_bool(args[1]) THEN Ok(args[2]) ELSE Ok(args[3])
      [] OTHER -> Err(UnknownFunction(name))

\* a match on the name as written
evaluate_function_case_sensitive(name, args) == match_function(name, name, args)

evaluate_function(name, args) == match_function(to_lowercase(name), name, args)

FunctionInfo(name, signature, description, arg_count) ==
    [name |-> name, signature |-> signature, description |-> description,
     arg_count |-> arg_count]

supported_functions ==
    <<FunctionInfo("min", "min(a, b)", "Returns the smaller of two values", 2),
      FunctionInfo("max", "max(a, b)", "Returns the larger of two values", 2),
      FunctionInfo("round", "round(x, n)", "Rounds x to n decimal places", 2),
      FunctionInfo("abs", "abs(x)", "Returns the absolute value of x", 1),
      FunctionInfo("sqrt", "sqrt(x)", "Returns the square root of x", 1),
      FunctionInfo("floor", "floor(x)", "Rounds x down to the nearest integer", 1),
      FunctionInfo("ceil", "ceil(x)", "Rounds x up to the nearest integer", 1),
      FunctionInfo("if", "if(cond, a, b)", "Returns a if cond is true, otherwise b", 3)>>

-----------------------------------------------------------------------------
(* evaluate, evaluator.rs:49-84.  The value of evaluate(expr, vars) is the  *)
(* Result it returns together with the names it passed to vars.get, in the  *)
(* order of the calls.                                                      *)

Evaluated(result, gets) == [result |-> result, gets |-> gets]

\* VariableProvider::get
provider_get(vars, name) == IF name \in DOMAIN vars THEN Some(vars[name]) ELSE None

RECURSIVE evaluate(_, _)

\* args.iter().map(|a| evaluate(a, vars)).collect::<Result<Vec<Value>, _>>(),
\* from argument i on: it stops at the first Err
RECURSIVE collect(_, _, _)
collect(args, i, vars) ==
    IF i > Len(args) THEN Evaluated(Ok(<< >>), << >>)
    ELSE LET first == evaluate(args[i], vars)
             rest == collect(args, i + 1, vars)
         IN  IF ~first.result.ok THEN first
             ELSE IF ~rest.result.ok
                  THEN Evaluated(rest.result, first.gets \o rest.gets)
             ELSE Evaluated(Ok(<<first.result.v>> \o rest.result.v),
                            first.gets \o rest.gets)

arm_Variable(expr, vars) ==
    Evaluated(IF provider_get(vars, expr.name).some
              THEN Ok(ValueNumber(provider_get(vars, expr.name).v))
              ELSE Err(UnknownVariable(expr.name)),
              <<expr.name>>)

\* a binary node whose == and != compare the two numbers exactly
arm_Binary_exact_equality(expr, vars) ==
    LET left_val == evaluate(expr.left, vars)
        right_val == evaluate(expr.right, vars)
        l == as_number(left_val.result.v)
        r == as_number(right_val.result.v)
    IN  IF ~left_val.result.ok THEN left_val
        ELSE IF ~right_val.result.ok
             THEN Evaluated(right_val.result, left_val.gets \o right_val.gets)
        ELSE Evaluated(IF expr.op = "Eq" THEN Ok(ValueBoolean(f64_eq(l, r)))
                       ELSE IF expr.op = "Neq" THEN Ok(ValueBoolean(f64_ne(l, r)))
                       ELSE evaluate_binary(expr.op, left_val.result.v, right_val.result.v),
                       left_val.gets \o right_val.gets)

arm_Binary(expr, vars) ==
    LET left_val == evaluate(expr.left, vars)
        right_val == evaluate(expr.right, vars)
    IN  IF ~left_val.result.ok THEN left_val
        ELSE IF ~right_val.result.ok
             THEN Evaluated(right_val.result, left_val.gets \o right_val.gets)
        ELSE Evaluated(evaluate_binary(expr.op, left_val.result.v, right_val.result.v),
                       left_val.gets \o right_val.gets)

arm_Unary(expr, vars) ==
    LET val == evaluate(expr.expr, vars)
    IN  IF ~val.result.ok THEN val
        ELSE Evaluated(evaluate_unary(expr.op, val.result.v), val.gets)

\* a call that looks at the function name before it evaluates the arguments
arm_FunctionCall_name_first(expr, vars) ==
    LET arg_values == collect(expr.args, 1, vars)
    IN  IF \A n \in 1 .. Len(supported_functions) :
               supported_functions[n].name # to_lowercase(expr.name)
        THEN Evaluated(Err(UnknownFunction(expr.name)), << >>)
        ELSE IF ~arg_values.result.ok THEN arg_values
        ELSE Evaluated(evaluate_function(expr.name, arg_values.result.v),
                       arg_values.gets)

\* a call of `if` that evaluates the condition, then the selected argument only
arm_FunctionCall_lazy_if(expr, vars) ==
    LET arg_values == collect(expr.args, 1, vars)
        cond == evaluate(expr.args[1], vars)
        taken == IF is_truthy(cond.result.v) THEN evaluate(expr.args[2], vars)
                 ELSE evaluate(expr.args[3], vars)
    IN  IF to_lowercase(expr.name) = "if" /\ Len(expr.args) = 3
        THEN IF ~cond.result.ok THEN cond
             ELSE Evaluated(taken.result, cond.gets \o taken.gets)
        ELSE IF ~arg_values.result.ok THEN arg_values
        ELSE Evaluated(evaluate_function(expr.name, arg_values.result.v),
                       arg_values.gets)

arm_FunctionCall(expr, vars) ==
    LET arg_values == collect(expr.args, 1, vars)
    IN  IF ~arg_values.result.ok THEN arg_values
        ELSE Evaluated(evaluate_function(expr.name, arg_values.result.v),
                       arg_values.gets)

\* a ternary that evaluates both branches before it selects
arm_Ternary_eager(expr, vars) ==
    LET cond == evaluate(expr.condition, vars)
        then_val == evaluate(expr.then_expr, vars)
        else_val == evaluate(expr.else_expr, vars)
    IN  IF ~cond.result.ok THEN cond
        ELSE IF ~then_val.result.ok
             THEN Evaluated(then_val.result, cond.gets \o then_val.gets)
        ELSE IF ~else_val.result.ok
             THEN Evaluated(else_val.result,
                            cond.gets \o then_val.gets \o else_val.gets)
        ELSE Evaluated(IF is_truthy(cond.result.v) THEN then_val.result
                       ELSE else_val.result,
                       cond.gets \o then_val.gets \o else_val.gets)

arm_Ternary(expr, vars) ==
    LET cond == evaluate(expr.condition, vars)
        taken == IF is_truthy(cond.result.v) THEN evaluate(expr.then_expr, vars)
                 ELSE evaluate(expr.else_expr, vars)
    IN  IF ~cond.result.ok THEN cond
        ELSE Evaluated(taken.result, cond.gets \o taken.gets)

evaluate(expr, vars) ==
    CASE expr.type = "Number" -> Evaluated(Ok(ValueNumber(expr.n)), << >>)
      [] expr.type = "Boolean" -> Evaluated(Ok(ValueBoolean(expr.b)), << >>)
      [] expr.type = "Variable" -> arm_Variable(expr, vars)
      [] expr.type = "Binary" -> arm_Binary(expr, vars)
      [] expr.type = "Unary" -> arm_Unary(expr, vars)
      [] expr.type = "FunctionCall" -> arm_FunctionCall(expr, vars)
      [] expr.type = "Ternary" -> arm_Ternary(expr, vars)

-----------------------------------------------------------------------------
(* The calls of evaluate that are explored *)

\* the longest argument list of a call
MaxArgs == 3

OneAndHalf == F64(FALSE, 15, -1)

\* 1.5 / 0
DivideByZero == Binary("Div", Number(OneAndHalf), Number(Zero(FALSE)))

\* literals (0.0, -0.0, 1.5, NaN, true, false) and two variables
EvalLeaves ==
    {Number(Zero(FALSE)), Number(Zero(TRUE)), Number(OneAndHalf), Number(NaN),
     Boolean(TRUE), Boolean(FALSE), Variable("x"), Variable("u")}

\* operands: the leaves, expressions that compute a zero (-0, x - x), and
\* expressions that fail (1.5 / 0, foo(), min(1.5))
EvalOperands ==
    EvalLeaves \cup
    {Unary("Neg", Number(Zero(FALSE))),
     Binary("Sub", Variable("x"), Variable("x")),
     DivideByZero,
     FunctionCall("foo", << >>),
     FunctionCall("min", <<Number(OneAndHalf)>>)}

\* arguments of the calls
CallArgs ==
    {Number(OneAndHalf), Boolean(FALSE), Variable("x"), Variable("u"),
     DivideByZero, FunctionCall("foo", << >>)}

\* the built-ins as listed, built-ins in another case, and names that are
\* no built-in
FunctionNames ==
    {"min", "max", "round", "abs", "sqrt", "floor", "ceil", "if",
     "MIN", "If", "foo", "minimum"}

\* operands of == and !=: values that are equal, that differ by less than
\* f64::EPSILON (1e-17 and 0, 1e-16 and 2e-16), by EPSILON or more, and
\* values whose difference is NaN
EqualityOperands ==
    {Number(Zero(FALSE)), Number(F64(FALSE, 1, -17)), Number(F64(FALSE, 1, -16)),
     Number(F64(FALSE, 2, -16)), Number(F64(FALSE, 1, -15)), Number(F64(TRUE, 1, -16)),
     Number(OneAndHalf), Number(FromInt(1)), Boolean(TRUE),
     Number(Infinity(FALSE)), Number(NaN)}

EvalExprs ==
    EvalLeaves
    \cup {Binary(op, l, r) : op \in {"Eq", "Neq"}, l \in EqualityOperands, r \in EqualityOperands}
    \cup {Binary(op, l, r) : op \in BinaryOp, l \in EvalOperands, r \in EvalOperands}
    \cup {Unary(op, e) : op \in UnaryOp, e \in EvalOperands}
    \cup {Ternary(c, t, e) : c \in EvalOperands, t \in EvalOperands, e \in EvalOperands}
    \cup {FunctionCall(name, args) :
            name \in FunctionNames,
            args \in UNION {[1 .. n -> CallArgs] : n \in 0 .. MaxArgs}}

\* providers: none of the names, x = 2, and x = 0 with u = 1.5
Providers ==
    {<< >>,
     [name \in {"x"} |-> FromInt(2)],
     [name \in {"x", "u"} |-> IF name = "x" THEN Zero(FALSE) ELSE OneAndHalf]}

-----------------------------------------------------------------------------
(* Actions of evaluate *)

\* a call of evaluate(expr, vars) and its return
Evaluate(expr, vars) ==
    /\ ev_pc = "idle"
    /\ ev_pc' = "done"
    /\ ev_expr' = expr
    /\ ev_vars' = vars
    /\ ev_out' = evaluate(expr, vars)
    /\ UNCHANGED outside_ev

EvalInit ==
    /\ ev_pc = "idle"
    /\ ev_expr = Number(Zero(FALSE))
    /\ ev_vars = << >>
    /\ ev_out = Evaluated(Ok(ValueNumber(Zero(FALSE))), << >>)

EvalNext ==
    /\ ev_pc = "idle"
    /\ \E expr \in EvalExprs, vars \in Providers : Evaluate(expr, vars)

-----------------------------------------------------------------------------
(* Claims about evaluate *)

\* evaluate has returned from a call on a node of the given type
Returned(type) == ev_pc = "done" /\ ev_expr.type = type

\* the values whose numeric coercion is zero: 0.0, -0.0 and false
ZeroValues == {ValueNumber(Zero(FALSE)), ValueNumber(Zero(TRUE)), ValueBoolean(FALSE)}

\* C5: a division node whose operands evaluate and whose right operand is
\* 0.0, -0.0 or false fails with DivisionByZero and yields no number; with
\* any other right operand the node does not fail and yields a number.
C5_DivisionByZero ==
    (Returned("Binary") /\ ev_expr.op = "Div") =>
        LET left_val == evaluate(ev_expr.left, ev_vars).result
            right_val == evaluate(ev_expr.right, ev_vars).result
        IN  (left_val.ok /\ right_val.ok) =>
                IF right_val.v \in ZeroValues
                THEN ev_out.result = Err(DivisionByZero)
                ELSE ev_out.result.ok /\ ev_out.result.v.type = "Number"

\* a division of a number by an operand that computes -0.0
C5_Witness ==
    /\ Returned("Binary")
    /\ ev_expr.op = "Div"
    /\ ev_expr.left = Number(OneAndHalf)
    /\ ev_expr.right = Unary("Neg", Number(Zero(FALSE)))
    /\ ev_out.result = Err(DivisionByZero)

\* the position of the leftmost argument whose evaluation fails, 0 when all
\* arguments evaluate
FirstFailing(args, vars) ==
    IF \E i \in 1 .. Len(args) : ~evaluate(args[i], vars).result.ok
    THEN CHOOSE i \in 1 .. Len(args) :
            /\ ~evaluate(args[i], vars).result.ok
            /\ \A j \in 1 .. (i - 1) : evaluate(args[j], vars).result.ok
    ELSE 0

\* the names asked of the provider by evaluating arguments 1 .. n in turn
RECURSIVE GetsOfArgs(_, _, _)
GetsOfArgs(args, n, vars) ==
    IF n = 0 THEN << >>
    ELSE GetsOfArgs(args, n - 1, vars) \o evaluate(args[n], vars).gets

\* C6: a function call evaluates its arguments left to right before it looks
\* at the name or the count: when an argument fails, the call fails with the
\* error of the leftmost failing argument and has asked the provider exactly
\* for the names of the arguments up to that one, whatever the name and the
\* number of arguments are.
C6_ArgumentsFirst ==
    Returned("FunctionCall") =>
        LET failing == FirstFailing(ev_expr.args, ev_vars)
        IN  IF failing > 0
            THEN /\ ev_out.result = evaluate(ev_expr.args[failing], ev_vars).result
                 /\ ev_out.gets = GetsOfArgs(ev_expr.args, failing, ev_vars)
            ELSE ev_out.gets = GetsOfArgs(ev_expr.args, Len(ev_expr.args), ev_vars)

\* foo(x, u, 1.5 / 0) with x known and u unknown: an unknown function and two
\* failing arguments, the call fails with UnknownVariable("u")
C6_Witness ==
    /\ Returned("FunctionCall")
    /\ ev_expr.name = "foo"
    /\ ev_expr.args = <<Variable("x"), Variable("u"), DivideByZero>>
    /\ "x" \in DOMAIN ev_vars
    /\ ev_out.result = Err(UnknownVariable("u"))
    /\ ev_out.gets = <<"x", "u">>

\* the built-ins and their arities, as the claim lists them
BuiltinArity ==
    [name \in {"min", "max", "round", "abs", "sqrt", "floor", "ceil", "if"} |->
        CASE name \in {"min", "max", "round"} -> 2
          [] name \in {"abs", "sqrt", "floor", "ceil"} -> 1
          [] name = "if" -> 3]

\* the name of a call names a built-in, in any case
NamesBuiltin(name, builtin) ==
    /\ Len(name) = Len(builtin)
    /\ \A i \in 1 .. Len(name) :
          \/ CharAt(name, i) = CharAt(builtin, i)
          \/ /\ IndexOf(ASCII_UPPERCASE, CharAt(name, i)) > 0
             /\ IndexOf(ASCII_UPPERCASE, CharAt(name, i)) =
                   IndexOf(ASCII_LOWERCASE, CharAt(builtin, i))

\* C7: a call whose arguments all evaluate returns a value exactly when the
\* number of arguments is the arity of the built-in it names, and fails
\* otherwise with InvalidArgCount of the lower-case name, the arity and the
\* number of arguments; the arities are the arg_count of supported_functions,
\* which lists exactly the built-ins; a name that is no built-in fails with
\* UnknownFunction.
C7_ExactArity ==
    /\ {supported_functions[n].name : n \in 1 .. Len(supported_functions)}
          = DOMAIN BuiltinArity
    /\ \A n \in 1 .. Len(supported_functions) :
          supported_functions[n].arg_count
             = BuiltinArity[supported_functions[n].name]
    /\ (Returned("FunctionCall") /\ FirstFailing(ev_expr.args, ev_vars) = 0) =>
          LET got == Len(ev_expr.args)
              named == {b \in DOMAIN BuiltinArity : NamesBuiltin(ev_expr.name, b)}
          IN  /\ \A b \in named :
                    IF got = BuiltinArity[b]
                    THEN ev_out.result.ok
                    ELSE ev_out.result = Err(InvalidArgCount(b, BuiltinArity[b], got))
              /\ named = {} => ev_out.result = Err(UnknownFunction(ev_expr.name))

\* MIN(1.5): a built-in written in upper case, with one argument too few
C7_Witness ==
    /\ Returned("FunctionCall")
    /\ ev_expr.name = "MIN"
    /\ ev_expr.args = <<Number(OneAndHalf)>>
    /\ ev_out.result = Err(InvalidArgCount("min", 2, 1))

\* a value is truthy: true, or a number other than 0.0 and -0.0
Truthy(v) == v \notin ZeroValues

\* C8: a ternary whose condition evaluates returns the result of the selected
\* branch (the then-branch for a truthy condition, the else-branch otherwise)
\* and evaluates the condition and that branch only: no error of the other
\* branch is reported, and the provider is not asked for its names.
C8_TernarySelectedBranchOnly ==
    Returned("Ternary") =>
        LET cond == evaluate(ev_expr.condition, ev_vars)
            selected == IF Truthy(cond.result.v) THEN ev_expr.then_expr
                        ELSE ev_expr.else_expr
        IN  cond.result.ok =>
                /\ ev_out.result = evaluate(selected, ev_vars).result
                /\ ev_out.gets = cond.gets \o evaluate(selected, ev_vars).gets

\* x ? x : u with x = 2 and u unknown: the else-branch would fail, the ternary
\* returns 2
C8_Witness ==
    /\ Returned("Ternary")
    /\ ev_expr = Ternary(Variable("x"), Variable("x"), Variable("u"))
    /\ "x" \in DOMAIN ev_vars
    /\ "u" \notin DOMAIN ev_vars
    /\ ev_out.result = Ok(ValueNumber(FromInt(2)))
    /\ ev_out.gets = <<"x", "x">>

\* C9: a call of if with three arguments fails when any of the three
\* arguments fails, the unselected one included; when all three evaluate it
\* returns the value of the second argument for a truthy condition and of
\* the third otherwise, a number as a number and a boolean as a boolean.
C9_IfIsEager ==
    (Returned("FunctionCall") /\ NamesBuiltin(ev_expr.name, "if")
        /\ Len(ev_expr.args) = 3) =>
        LET cond == evaluate(ev_expr.args[1], ev_vars).result
            a == evaluate(ev_expr.args[2], ev_vars).result
            b == evaluate(ev_expr.args[3], ev_vars).result
        IN  IF cond.ok /\ a.ok /\ b.ok
            THEN ev_out.result = Ok(IF Truthy(cond.v) THEN a.v ELSE b.v)
            ELSE ~ev_out.result.ok

\* if(1.5, false, 1.5 / 0): the condition selects the second argument, the
\* call fails with the DivisionByZero of the third
C9_Witness ==
    /\ Returned("FunctionCall")
    /\ ev_expr.name = "if"
    /\ ev_expr.args = <<Number(OneAndHalf), Boolean(FALSE), DivideByZero>>
    /\ ev_out.result = Err(DivisionByZero)

\* a binary node with that operator has returned and both operands evaluate
ComparedWith(op) ==
    /\ Returned("Binary") /\ ev_expr.op = op
    /\ evaluate(ev_expr.left, ev_vars).result.ok
    /\ evaluate(ev_expr.right, ev_vars).result.ok

\* the operands of the node as numbers
LeftNumber == as_number(evaluate(ev_expr.left, ev_vars).result.v)

RightNumber == as_number(evaluate(ev_expr.right, ev_vars).result.v)

\* C13 as the specification states it: == is true exactly when the operands,
\* as numbers, are equal, and != exactly when they differ; no tolerance.
C13_Original ==
    /\ ComparedWith("Eq") =>
          ev_out.result = Ok(ValueBoolean(f64_eq(LeftNumber, RightNumber)))
    /\ ComparedWith("Neq") =>
          ev_out.result = Ok(ValueBoolean(f64_ne(LeftNumber, RightNumber)))

\* C13, amended: == is true exactly when the difference of the operands, as
\* numbers, is less than f64::EPSILON in absolute value, and != exactly when
\* it is EPSILON or more; both are false when the difference is NaN.
C13_EqualWithinEpsilon ==
    LET distance == f64_abs(f64_sub(LeftNumber, RightNumber))
    IN  /\ ComparedWith("Eq") =>
              ev_out.result = Ok(ValueBoolean(f64_lt(distance, EPSILON)))
        /\ ComparedWith("Neq") =>
              ev_out.result = Ok(ValueBoolean(f64_ge(distance, EPSILON)))
        /\ (ComparedWith("Eq") \/ ComparedWith("Neq")) =>
              (is_nan(distance) => ev_out.result = Ok(ValueBoolean(FALSE)))

\* 1e-17 == 0 is true
C13_Witness ==
    /\ ComparedWith("Eq")
    /\ ev_expr.left = Number(F64(FALSE, 1, -17))
    /\ ev_expr.right = Number(Zero(FALSE))
    /\ ev_out.result = Ok(ValueBoolean(TRUE))

-----------------------------------------------------------------------------
(* The nom combinators used by the parser (parser.rs:1-10), on &str.  A     *)
(* parser takes the input and returns Ok((rest, output)), Err(Error(e)) or  *)
(* Err(Failure(e)) with e = Error { input, code }.                          *)

NomOk(rest, out) == [ok |-> TRUE, rest |-> rest, out |-> out]

NomError(input, code) == [ok |-> FALSE, failure |-> FALSE, input |-> input, code |-> code]

\* cut: an Error becomes a Failure, which alt, opt and separated_list0 pass on
cut(res) == IF res.ok THEN res ELSE [res EXCEPT !.failure = TRUE]

\* opt: an Error becomes Ok with no output and nothing consumed
opt(res, input) == IF ~res.ok /\ ~res.failure THEN NomOk(input, None) ELSE res

StartsWith(input, t) == Len(input) >= Len(t) /\ SubSeq(input, 1, Len(t)) = t

\* the input without its first n chars
Skip(input, n) == SubSeq(input, n + 1, Len(input))

\* the slice of input that was consumed to leave rest
Consumed(input, rest) == SubSeq(input, 1, Len(input) - Len(rest))

\* the classes of chars: multispace is what multispace0 skips, whitespace
\* what str::trim strips (char::is_whitespace; of the chars of the model,
\* form feed is whitespace but no multispace)
InClass(class, c) ==
    CASE class = "multispace" -> c \in {" ", "\t", "\r", "\n"}
      [] class = "whitespace" -> c \in {" ", "\t", "\r", "\n", "\f"}
      [] class = "digit" -> c \in DigitChars
      [] class = "alphabetic_" ->
            c \in LowercaseChars \/ c \in UppercaseChars \/ c = "_"
      [] class = "alphanumeric_" ->
            c \in LowercaseChars \/ c \in UppercaseChars \/ c \in DigitChars \/ c = "_"

\* the number of leading chars of input, from char i on, that are in class
RECURSIVE PrefixLen(_, _, _)
PrefixLen(input, class, i) ==
    IF i <= Len(input) /\ InClass(class, CharAt(input, i))
    THEN 1 + PrefixLen(input, class, i + 1)
    ELSE 0

\* the number of trailing chars of input, up to char i, that are in class
RECURSIVE SuffixLen(_, _, _)
SuffixLen(input, class, i) ==
    IF i >= 1 /\ InClass(class, CharAt(input, i))
    THEN 1 + SuffixLen(input, class, i - 1)
    ELSE 0

\* str::trim
trim(input) ==
    LET lead == PrefixLen(input, "whitespace", 1)
    IN  IF lead = Len(input) THEN ""
        ELSE SubSeq(input, lead + 1, Len(input) - SuffixLen(input, "whitespace", Len(input)))

\* character::complete::char
char(c, input) ==
    IF StartsWith(input, c) THEN NomOk(Skip(input, 1), c) ELSE NomError(input, "Char")

\* bytes::complete::tag
tag(t, input) ==
    IF StartsWith(input, t) THEN NomOk(Skip(input, Len(t)), t) ELSE NomError(input, "Tag")

\* bytes::complete::tag_no_case
tag_no_case(t, input) ==
    IF Len(input) >= Len(t) /\ to_lowercase(SubSeq(input, 1, Len(t))) = to_lowercase(t)
    THEN NomOk(Skip(input, Len(t)), SubSeq(input, 1, Len(t)))
    ELSE NomError(input, "Tag")

\* character::complete::multispace0
multispace0(input) ==
    NomOk(Skip(input, PrefixLen(input, "multispace", 1)),
          SubSeq(input, 1, PrefixLen(input, "multispace", 1)))

\* bytes::complete::take_while1 with the predicate of a class
take_while1(class, input) ==
    IF PrefixLen(input, class, 1) = 0 THEN NomError(input, "TakeWhile1")
    ELSE NomOk(Skip(input, PrefixLen(input, class, 1)),
               SubSeq(input, 1, PrefixLen(input, class, 1)))

\* character::complete::digit1
digit1(input) ==
    IF PrefixLen(input, "digit", 1) = 0 THEN NomError(input, "Digit")
    ELSE NomOk(Skip(input, PrefixLen(input, "digit", 1)),
               SubSeq(input, 1, PrefixLen(input, "digit", 1)))

\* opt(alt((char('+'), char('-')))): the input after an optional sign
after_sign(input) ==
    IF StartsWith(input, "+") \/ StartsWith(input, "-") THEN Skip(input, 1) ELSE input

\* the mantissa of recognize_float: digits with an optional "." and optional
\* digits after it, or "." and digits
float_mantissa(input) ==
    LET int == digit1(input)
        dot == char(".", int.rest)
        lead_dot == char(".", input)
    IN  IF int.ok
        THEN IF dot.ok THEN opt(digit1(dot.rest), dot.rest) ELSE int
        ELSE IF lead_dot.ok THEN digit1(lead_dot.rest)
        ELSE lead_dot

\* the exponent of recognize_float: e or E, an optional sign and cut(digit1)
float_exponent(input) ==
    IF StartsWith(input, "e") \/ StartsWith(input, "E")
    THEN cut(digit1(after_sign(Skip(input, 1))))
    ELSE NomError(input, "Char")

\* number::complete::recognize_float
recognize_float(input) ==
    LET mantissa == float_mantissa(after_sign(input))
        exponent == opt(float_exponent(mantissa.rest), mantissa.rest)
    IN  IF ~mantissa.ok THEN mantissa
        ELSE IF ~exponent.ok THEN exponent
        ELSE NomOk(exponent.rest, Consumed(input, exponent.rest))

-----------------------------------------------------------------------------
(* The parser, formula/parser.rs *)

\* the value of a string of at most 9 digits
RECURSIVE IntOf(_)
IntOf(s) ==
    IF s = "" THEN 0
    ELSE 10 * IntOf(SubSeq(s, 1, Len(s) - 1))
            + (IndexOf("0123456789", CharAt(s, Len(s))) - 1)

\* s.parse::<f64>() for a slice s that recognize_float accepted (every such
\* slice is a float literal of Rust, so the unwrap_or(0.0) of line 198 never
\* applies): digits beyond the 8th are dropped, an exponent of more than 4
\* digits counts as 9999
parse_f64(s) ==
    LET body == after_sign(s)
        int == SubSeq(body, 1, PrefixLen(body, "digit", 1))
        after_int == Skip(body, Len(int))
        frac == IF StartsWith(after_int, ".")
                THEN SubSeq(after_int, 2, 1 + PrefixLen(after_int, "digit", 2))
                ELSE ""
        after_frac == Skip(after_int, IF StartsWith(after_int, ".") THEN 1 + Len(frac) ELSE 0)
        exp_digits == IF after_frac = "" THEN "" ELSE after_sign(Skip(after_frac, 1))
        exp == IF Len(exp_digits) > 4 THEN 9999 ELSE IntOf(exp_digits)
        digits == int \o frac
        kept == IF Len(digits) > 8 THEN SubSeq(digits, 1, 8) ELSE digits
    IN  F64(StartsWith(s, "-"), IntOf(kept),
            (IF StartsWith(Skip(after_frac, 1), "-") THEN -exp ELSE exp)
               - Len(frac) + (Len(digits) - Len(kept)))

\* a call of the parser function with that name: the parser functions call
\* each other, and parse_binary_chain takes two of them as arguments
RECURSIVE apply(_, _)

\* the input after multispace0
skip_ws(input) == multispace0(input).rest

\* ws(value(v, inner)) given what inner returned on the input after the
\* leading multispace0: the trailing multispace0 and the value
ws_value(res, v) == IF res.ok THEN NomOk(skip_ws(res.rest), v) ELSE res

\* alt goes on to the next parser after an Error only
decides(res) == res.ok \/ res.failure

\* recognize(pair(take_while1(alphabetic or '_'), opt(take_while1(alphanumeric
\* or '_')))), lines 204-207 and 213-216
recognize_name(input) ==
    LET head == take_while1("alphabetic_", input)
        rest == Skip(head.rest, PrefixLen(head.rest, "alphanumeric_", 1))
    IN  IF ~head.ok THEN head ELSE NomOk(rest, Consumed(input, rest))

parse_parenthesized(input) ==
    LET open == char("(", input)
        inner == apply("parse_expr", skip_ws(open.rest))
        close == char(")", skip_ws(inner.rest))
    IN  IF ~open.ok THEN open
        ELSE IF ~inner.ok THEN inner
        ELSE IF ~close.ok THEN close
        ELSE NomOk(close.rest, inner.out)

parse_boolean(input) ==
    LET true == tag_no_case("true", input)
        false == tag_no_case("false", input)
    IN  IF true.ok THEN NomOk(true.rest, Boolean(TRUE))
        ELSE IF false.ok THEN NomOk(false.rest, Boolean(FALSE))
        ELSE false

parse_number(input) ==
    LET s == recognize_float(input)
    IN  IF ~s.ok THEN s ELSE NomOk(s.rest, Number(parse_f64(s.out)))

parse_variable(input) ==
    LET s == recognize_name(input)
    IN  IF ~s.ok THEN s ELSE NomOk(s.rest, Variable(s.out))

\* tuple((multispace0, char(','), multispace0)), line 224
arg_separator(input) ==
    LET comma == char(",", skip_ws(input))
    IN  IF ~comma.ok THEN comma ELSE NomOk(skip_ws(comma.rest), ",")

\* the loop of separated_list0 after the first element: res holds the
\* elements parsed so far, i the input after the last of them
RECURSIVE separated_list0_loop(_, _)
separated_list0_loop(i, res) ==
    LET sep == arg_separator(i)
        elem == apply("parse_expr", sep.rest)
    IN  IF ~sep.ok THEN (IF sep.failure THEN sep ELSE NomOk(i, res))
        ELSE IF Len(sep.rest) = Len(i) THEN NomError(sep.rest, "SeparatedList")
        ELSE IF ~elem.ok THEN (IF elem.failure THEN elem ELSE NomOk(i, res))
        ELSE separated_list0_loop(elem.rest, Append(res, elem.out))

\* separated_list0(tuple((multispace0, char(','), multispace0)), parse_expr)
separated_list0(input) ==
    LET first == apply("parse_expr", input)
    IN  IF ~first.ok THEN (IF first.failure THEN first ELSE NomOk(input, << >>))
        ELSE separated_list0_loop(first.rest, <<first.out>>)

parse_function_call(input) ==
    LET name == recognize_name(input)
        open == char("(", skip_ws(name.rest))
        args == separated_list0(skip_ws(open.rest))
        close == char(")", skip_ws(args.rest))
    IN  IF ~name.ok THEN name
        ELSE IF ~open.ok THEN open
        ELSE IF ~args.ok THEN args
        ELSE IF ~close.ok THEN close
        ELSE NomOk(close.rest, FunctionCall(name.out, args.out))

parse_primary(input) ==
    LET i == skip_ws(input)
        parenthesized == apply("parse_parenthesized", i)
        boolean == apply("parse_boolean", i)
        function_call == apply("parse_function_call", i)
        number == apply("parse_number", i)
    IN  IF decides(parenthesized) THEN parenthesized
        ELSE IF decides(boolean) THEN boolean
        ELSE IF decides(function_call) THEN function_call
        ELSE IF decides(number) THEN number
        ELSE apply("parse_variable", i)

parse_unary(input) ==
    LET i == skip_ws(input)
        minus == char("-", i)
        not == tag_no_case("not", i)
        negated == apply("parse_unary", skip_ws(minus.rest))
        inverted == apply("parse_unary", skip_ws(not.rest))
    IN  IF minus.ok
        THEN (IF ~negated.ok THEN negated
              ELSE NomOk(negated.rest, Unary("Neg", negated.out)))
        ELSE IF not.ok
        THEN (IF ~inverted.ok THEN inverted
              ELSE NomOk(inverted.rest, Unary("Not", inverted.out)))
        ELSE apply("parse_primary", i)

\* a chain that groups to the right: the right operand is the rest of the chain
RECURSIVE parse_binary_chain_right(_, _, _, _)
parse_binary_chain_right(input, left, op_parser, expr_parser) ==
    LET op == apply(op_parser, input)
        right == apply(expr_parser, op.rest)
        rest == parse_binary_chain_right(right.rest, right.out, op_parser, expr_parser)
    IN  IF ~op.ok THEN NomOk(input, left)
        ELSE IF ~right.ok THEN right
        ELSE IF ~rest.ok THEN rest
        ELSE NomOk(rest.rest, Binary(op.out, left, rest.out))

\* the loop of lines 137-146: op_parser and expr_parser are the names of the
\* parser functions passed in
RECURSIVE parse_binary_chain(_, _, _, _)
parse_binary_chain(input, left, op_parser, expr_parser) ==
    LET op == apply(op_parser, input)
        right == apply(expr_parser, op.rest)
    IN  IF ~op.ok THEN NomOk(input, left)
        ELSE IF ~right.ok THEN right
        ELSE parse_binary_chain(right.rest, Binary(op.out, left, right.out),
                                op_parser, expr_parser)

parse_multiplicative_op(input) ==
    LET i == skip_ws(input)
        mul == char("*", i)
    IN  IF mul.ok THEN ws_value(mul, "Mul") ELSE ws_value(char("/", i), "Div")

parse_multiplicative(input) ==
    LET left == apply("parse_unary", input)
    IN  IF ~left.ok THEN left
        ELSE parse_binary_chain(left.rest, left.out,
                                "parse_multiplicative_op", "parse_unary")

parse_additive_op(input) ==
    LET i == skip_ws(input)
        add == char("+", i)
    IN  IF add.ok THEN ws_value(add, "Add") ELSE ws_value(char("-", i), "Sub")

parse_additive(input) ==
    LET left == apply("parse_multiplicative", input)
    IN  IF ~left.ok THEN left
        ELSE parse_binary_chain(left.rest, left.out,
                                "parse_additive_op", "parse_multiplicative")

parse_comparison_op(input) ==
    LET i == skip_ws(input)
    IN  IF StartsWith(i, ">=") THEN ws_value(tag(">=", i), "Gte")
        ELSE IF StartsWith(i, "<=") THEN ws_value(tag("<=", i), "Lte")
        ELSE IF StartsWith(i, "==") THEN ws_value(tag("==", i), "Eq")
        ELSE IF StartsWith(i, "!=") THEN ws_value(tag("!=", i), "Neq")
        ELSE IF StartsWith(i, ">") THEN ws_value(tag(">", i), "Gt")
        ELSE ws_value(tag("<", i), "Lt")

parse_comparison(input) ==
    LET left == apply("parse_additive", input)
    IN  IF ~left.ok THEN left
        ELSE parse_binary_chain(left.rest, left.out,
                                "parse_comparison_op", "parse_additive")

parse_and_op(input) == ws_value(tag_no_case("and", skip_ws(input)), "And")

parse_and(input) ==
    LET left == apply("parse_comparison", input)
    IN  IF ~left.ok THEN left
        ELSE parse_binary_chain(left.rest, left.out, "parse_and_op", "parse_comparison")

parse_or_op(input) == ws_value(tag_no_case("or", skip_ws(input)), "Or")

parse_or(input) ==
    LET left == apply("parse_and", input)
    IN  IF ~left.ok THEN left
        ELSE parse_binary_chain(left.rest, left.out, "parse_or_op", "parse_and")

parse_ternary(input) ==
    LET condition == apply("parse_or", input)
        after_condition == skip_ws(condition.rest)
        question == char("?", after_condition)
        then_expr == apply("parse_expr", skip_ws(question.rest))
        colon == char(":", skip_ws(then_expr.rest))
        else_expr == apply("parse_expr", skip_ws(colon.rest))
    IN  IF ~condition.ok THEN condition
        ELSE IF ~question.ok THEN NomOk(after_condition, condition.out)
        ELSE IF ~then_expr.ok THEN then_expr
        ELSE IF ~colon.ok THEN colon
        ELSE IF ~else_expr.ok THEN else_expr
        ELSE NomOk(else_expr.rest,
                   Ternary(condition.out, then_expr.out, else_expr.out))

parse_expr(input) == parse_ternary(input)

apply(parser, input) ==
    CASE parser = "parse_expr" -> parse_expr(input)
      [] parser = "parse_or" -> parse_or(input)
      [] parser = "parse_or_op" -> parse_or_op(input)
      [] parser = "parse_and" -> parse_and(input)
      [] parser = "parse_and_op" -> parse_and_op(input)
      [] parser = "parse_comparison" -> parse_comparison(input)
      [] parser = "parse_comparison_op" -> parse_comparison_op(input)
      [] parser = "parse_additive" -> parse_additive(input)
      [] parser = "parse_additive_op" -> parse_additive_op(input)
      [] parser = "parse_multiplicative" -> parse_multiplicative(input)
      [] parser = "parse_multiplicative_op" -> parse_multiplicative_op(input)
      [] parser = "parse_unary" -> parse_unary(input)
      [] parser = "parse_primary" -> parse_primary(input)
      [] parser = "parse_parenthesized" -> parse_parenthesized(input)
      [] parser = "parse_boolean" -> parse_boolean(input)
      [] parser = "parse_function_call" -> parse_function_call(input)
      [] parser = "parse_number" -> parse_number(input)
      [] parser = "parse_variable" -> parse_variable(input)

\* format!("parse error: {:?}", e) for e = Err::Error(..) or Err::Failure(..)
parse_error_message(e) ==
    "parse error: " \o (IF e.failure THEN "Failure" ELSE "Error")
       \o "(Error { input: \"" \o e.input \o "\", code: " \o e.code \o " })"

\* the match of lines 22-38 on what parse_expr returned for the trimmed input
parse_result(input, parsed) ==
    IF ~parsed.ok THEN Err(ParseError(0, parse_error_message(parsed)))
    ELSE IF trim(parsed.rest) = "" THEN Ok(parsed.out)
    ELSE Err(ParseError(Len(input) - Len(trim(parsed.rest)),
                        "unexpected characters: '" \o trim(parsed.rest) \o "'"))

\* lines 18-38 of parse: the input is the trimmed text
parse_trimmed(input) ==
    IF input = "" THEN Err(EmptyExpression)
    ELSE parse_result(input, apply("parse_expr", input))

\* a parse of the text as given
parse_untrimmed(input) == parse_trimmed(input)

parse(input) == parse_trimmed(trim(input))

-----------------------------------------------------------------------------
(* The facade, formula/mod.rs.  Like evaluate, a call yields its Result and *)
(* the names it asked the provider for.                                     *)

\* the () of Result<(), FormulaError>
Unit == << >>

\* parse(expression)?: an Err is returned as it is, nothing is evaluated
validate_parsed(ast) ==
    IF ~ast.ok THEN Evaluated(ast, << >>) ELSE Evaluated(Ok(Unit), << >>)

validate(expression) == validate_parsed(parse(expression))

\* a check that does not look into the else branch of a ternary
RECURSIVE check_variables_skips_else(_, _)
check_variables_skips_else(expr, available) ==
    CASE expr.type \in {"Number", "Boolean"} -> Ok(Unit)
      [] expr.type = "Variable" ->
            IF expr.name \in available THEN Ok(Unit)
            ELSE Err(UnknownVariable(expr.name))
      [] expr.type = "Binary" ->
            IF ~check_variables_skips_else(expr.left, available).ok
            THEN check_variables_skips_else(expr.left, available)
            ELSE check_variables_skips_else(expr.right, available)
      [] expr.type = "Unary" -> check_variables_skips_else(expr.expr, available)
      [] expr.type = "FunctionCall" ->
            IF \A i \in 1 .. Len(expr.args) :
                  check_variables_skips_else(expr.args[i], available).ok
            THEN Ok(Unit)
            ELSE check_variables_skips_else(
                    expr.args[CHOOSE i \in 1 .. Len(expr.args) :
                       /\ ~check_variables_skips_else(expr.args[i], available).ok
                       /\ \A j \in 1 .. i - 1 :
                             check_variables_skips_else(expr.args[j], available).ok],
                    available)
      [] expr.type = "Ternary" ->
            IF ~check_variables_skips_else(expr.condition, available).ok
            THEN check_variables_skips_else(expr.condition, available)
            ELSE check_variables_skips_else(expr.then_expr, available)

\* the loop of lines 74-77 from argument i on
RECURSIVE check_variables(_, _)
RECURSIVE check_arguments(_, _, _)
check_arguments(args, i, available) ==
    IF i > Len(args) THEN Ok(Unit)
    ELSE IF ~check_variables(args[i], available).ok
    THEN check_variables(args[i], available)
    ELSE check_arguments(args, i + 1, available)

check_variables(expr, available) ==
    CASE expr.type \in {"Number", "Boolean"} -> Ok(Unit)
      [] expr.type = "Variable" ->
            IF expr.name \in available THEN Ok(Unit)
            ELSE Err(UnknownVariable(expr.name))
      [] expr.type = "Binary" ->
            IF ~check_variables(expr.left, available).ok
            THEN check_variables(expr.left, available)
            ELSE check_variables(expr.right, available)
      [] expr.type = "Unary" -> check_variables(expr.expr, available)
      [] expr.type = "FunctionCall" -> check_arguments(expr.args, 1, available)
      [] expr.type = "Ternary" ->
            IF ~check_variables(expr.condition, available).ok
            THEN check_variables(expr.condition, available)
            ELSE IF ~check_variables(expr.then_expr, available).ok
            THEN check_variables(expr.then_expr, available)
            ELSE check_variables(expr.else_expr, available)

\* parse(expression)?: an Err is returned as it is
validate_with_variables_parsed(ast, available) ==
    IF ~ast.ok THEN ast ELSE check_variables(ast.v, available)

validate_with_variables(expression, available) ==
    validate_with_variables_parsed(parse(expression), available)

\* evaluate(&ast, vars)? and result.as_number(), lines 94-95
compute_result(result) ==
    IF ~result.result.ok THEN result
    ELSE Evaluated(Ok(as_number(result.result.v)), result.gets)

\* parse(expression)?: an Err is returned as it is, nothing is evaluated
compute_parsed(ast, vars) ==
    IF ~ast.ok THEN Evaluated(ast, << >>)
    ELSE compute_result(evaluate(ast.v, vars))

compute(expression, vars) == compute_parsed(parse(expression), vars)

-----------------------------------------------------------------------------
(* The calls of parse, validate and compute that are explored *)

\* the longest text, in tokens
MaxTokens == 4

\* a text is a concatenation of tokens: blank, form feed, a digit, the names
\* x and e (also the exponent mark of a number), division and parentheses
Tokens == {" ", "\f", "1", "x", "e", "/", "(", ")"}

RECURSIVE Concat(_)
Concat(tokens) == IF tokens = << >> THEN "" ELSE Head(tokens) \o Concat(Tail(tokens))

\* the positions of the opening parentheses among the tokens
Opens(tokens) == {i \in DOMAIN tokens : tokens[i] = "("}

\* the texts of at most MaxTokens tokens that open at most one parenthesis or
\* call: two of them do not nest (expressions within expressions are those
\* of the operator and variable texts)
Texts ==
    {Concat(tokens) :
        tokens \in {t \in UNION {[1 .. n -> Tokens] : n \in 0 .. MaxTokens} :
                       \A i \in Opens(t) : \A j \in Opens(t) : i = j}}

\* providers of compute: x = 0, and e unknown
ComputeProviders == {[name \in {"x"} |-> Zero(FALSE)]}

-----------------------------------------------------------------------------
(* Actions of the formula facade *)

\* a call of parse(text) and its return
Parse(text) ==
    /\ fm_pc = "idle"
    /\ fm_pc' = "done"
    /\ fm_call' = "parse"
    /\ fm_expression' = text
    /\ fm_out' = Evaluated(parse(text), << >>)
    /\ UNCHANGED <<fm_vars, fm_available>>
    /\ UNCHANGED outside_fm

\* a call of validate(text) and its return
Validate(text) ==
    /\ fm_pc = "idle"
    /\ fm_pc' = "done"
    /\ fm_call' = "validate"
    /\ fm_expression' = text
    /\ fm_out' = validate(text)
    /\ UNCHANGED <<fm_vars, fm_available>>
    /\ UNCHANGED outside_fm

\* a call of compute(text, vars) and its return
Compute(text, vars) ==
    /\ fm_pc = "idle"
    /\ fm_pc' = "done"
    /\ fm_call' = "compute"
    /\ fm_expression' = text
    /\ fm_vars' = vars
    /\ fm_out' = compute(text, vars)
    /\ UNCHANGED fm_available
    /\ UNCHANGED outside_fm

FormulaInit ==
    /\ fm_pc = "idle"
    /\ fm_call = "parse"
    /\ fm_expression = ""
    /\ fm_vars = << >>
    /\ fm_available = {}
    /\ fm_out = Evaluated(Err(EmptyExpression), << >>)

FormulaNext ==
    \/ fm_pc = "idle" /\ \E text \in Texts : Parse(text)
    \/ fm_pc = "idle" /\ \E text \in Texts : Validate(text)
    \/ fm_pc = "idle" /\ \E text \in Texts : \E vars \in ComputeProviders :
                             Compute(text, vars)

-----------------------------------------------------------------------------
(* Claims about parse, validate and compute *)

\* parse, validate or compute has returned
FormulaReturned(call) == fm_pc = "done" /\ fm_call = call

\* the text has no char that is not whitespace: trimming whitespace off both
\* ends leaves nothing
OnlyWhitespace(text) ==
    \A i \in 1 .. Len(text) : CharAt(text, i) \in {" ", "\t", "\n", "\r", "\f"}

\* C10: parse fails with EmptyExpression exactly on the texts that are empty
\* once surrounding whitespace is trimmed, and every other text on which it
\* fails fails with ParseError; on a text that parse fails on, validate and
\* compute return the error parse returns and ask the provider for nothing.
C10_EmptyOrParseError ==
    /\ FormulaReturned("parse") =>
          /\ fm_out.result = Err(EmptyExpression) <=> OnlyWhitespace(fm_expression)
          /\ (~fm_out.result.ok /\ ~OnlyWhitespace(fm_expression)) =>
                fm_out.result.err.error = "ParseError"
    /\ (FormulaReturned("validate") \/ FormulaReturned("compute")) =>
          LET parsed == parse(fm_expression)
          IN  ~parsed.ok =>
                 /\ fm_out.result = parsed
                 /\ IF OnlyWhitespace(fm_expression)
                    THEN fm_out.result = Err(EmptyExpression)
                    ELSE fm_out.result.err.error = "ParseError"
                 /\ fm_out.gets = << >>

\* compute on a text that names the variable x of the provider and does not
\* parse: ParseError, and x is not asked for
C10_Witness ==
    /\ FormulaReturned("compute")
    /\ fm_expression = " x/("
    /\ "x" \in DOMAIN fm_vars
    /\ ~fm_out.result.ok
    /\ fm_out.result.err.error = "ParseError"
    /\ fm_out.gets = << >>

\* parse has returned ParseError
ParseFailed == FormulaReturned("parse") /\ ~fm_out.result.ok
                  /\ fm_out.result.err.error = "ParseError"

\* the first n chars of the text
Prefix(text, n) == SubSeq(text, 1, n)

\* what can follow a text that stops inside a formula of the texts explored:
\* an operand or nothing, and then closing parentheses
RECURSIVE Closing(_)
Closing(n) == IF n = 0 THEN "" ELSE ")" \o Closing(n - 1)

Completions == {operand \o Closing(n) : operand \in {"", "1"}, n \in 0 .. MaxTokens + 1}

\* every char of the text could be consumed: the text starts a formula
Consumable(text) == \E rest \in Completions : parse(text \o rest).ok

\* C11: when parse fails with ParseError, position is the byte offset in the
\* text passed to parse of the first char that could not be consumed or is
\* invalid: the chars before it start a formula, and the text up to and
\* including it (the whole text, when the text stops too early) is no formula
\* and starts none.
C11_PositionOfFirstInvalid ==
    ParseFailed =>
        LET position == fm_out.result.err.position
        IN  /\ position <= Len(fm_expression)
            /\ Consumable(Prefix(fm_expression, position))
            /\ IF position < Len(fm_expression)
               THEN ~Consumable(Prefix(fm_expression, position + 1))
               ELSE ~parse(fm_expression).ok

-----------------------------------------------------------------------------
(* Calls of parse on unparenthesised sequences of operands and operators *)

\* the most binary operators in a sequence
MaxOps == 2

\* the most operators, "?" and ":" in a sequence with ternaries
MaxBranchItems == 4

\* the binary operators of parse_or_op to parse_multiplicative_op, and what
\* starts a unary expression in parse_unary
BinaryOperators == {"*", "/", "+", "-", ">", "<", ">=", "<=", "==", "!=", "and", "or"}

UnaryOperators == {"-", "not"}

\* the operands of a sequence, by position
OperandNames == <<"a", "b", "c", "d", "e", "f", "g">>

\* the words of a text, one blank between two words
RECURSIVE Join(_)
Join(words) ==
    IF Len(words) = 0 THEN ""
    ELSE IF Len(words) = 1 THEN words[1]
    ELSE words[1] \o " " \o Join(Tail(words))

\* operand i and what follows it: a unary operator goes before operand u
RECURSIVE SequenceFrom(_, _, _, _)
SequenceFrom(items, i, u, unary) ==
    (IF i = u THEN <<unary>> ELSE << >>) \o <<OperandNames[i]>>
       \o (IF i > Len(items) THEN << >>
           ELSE <<items[i]>> \o SequenceFrom(items, i + 1, u, unary))

OperatorTexts ==
    {Join(SequenceFrom(ops, 1, u, unary)) :
        ops \in UNION {[1 .. n -> BinaryOperators] : n \in 0 .. MaxOps},
        u \in 0 .. MaxOps + 1, unary \in UnaryOperators}

TernaryTexts ==
    {Join(SequenceFrom(items, 1, 0, "-")) :
        items \in UNION {[1 .. n -> {"+", "or", "?", ":"}] : n \in 0 .. MaxBranchItems}}

ParseOperatorsNext ==
    \/ fm_pc = "idle" /\ \E text \in OperatorTexts : Parse(text)
    \/ fm_pc = "idle" /\ \E text \in TernaryTexts : Parse(text)

-----------------------------------------------------------------------------
(* Claims about the grouping of operators *)

\* the words of a text of words and single blanks
RECURSIVE Split(_)
Split(text) ==
    IF text = "" THEN << >>
    ELSE LET blanks == {i \in 1 .. Len(text) : CharAt(text, i) = " "}
             k == IF blanks = {} THEN Len(text) + 1
                  ELSE CHOOSE i \in blanks : \A j \in blanks : i <= j
         IN  <<SubSeq(text, 1, k - 1)>> \o Split(SubSeq(text, k + 1, Len(text)))

\* the binding level of a binary operator, 0 for any other word
OperatorLevel(word) ==
    CASE word = "or" -> 1
      [] word = "and" -> 2
      [] word \in {">", "<", ">=", "<=", "==", "!="} -> 3
      [] word \in {"+", "-"} -> 4
      [] word \in {"*", "/"} -> 5
      [] OTHER -> 0

OperatorOf(word) ==
    CASE word = "or" -> "Or" [] word = "and" -> "And"
      [] word = ">" -> "Gt" [] word = "<" -> "Lt" [] word = ">=" -> "Gte"
      [] word = "<=" -> "Lte" [] word = "==" -> "Eq" [] word = "!=" -> "Neq"
      [] word = "+" -> "Add" [] word = "-" -> "Sub"
      [] word = "*" -> "Mul" [] word = "/" -> "Div"

IsOperand(word) == OperatorLevel(word) = 0 /\ word \notin {"not", "?", ":", ""}

\* word i is a binary operator: an operator that follows an operand
BinaryAt(words, i) ==
    i > 1 /\ OperatorLevel(words[i]) > 0 /\ IsOperand(words[i - 1])

\* a sequence without "?" and ":" is unary operators and an operand, then
\* any number of times a binary operator and the same again
RECURSIVE IsChain(_)
IsChain(words) ==
    /\ Len(words) > 0
    /\ IF words[1] \in UnaryOperators THEN IsChain(Tail(words))
       ELSE /\ IsOperand(words[1])
            /\ \/ Len(words) = 1
               \/ /\ Len(words) > 2
                  /\ OperatorLevel(words[2]) > 0
                  /\ IsChain(SubSeq(words, 3, Len(words)))

\* the ":" that belongs to the "?" at word i, 0 when there is none
Count(words, word, from, to) == Cardinality({k \in from .. to : words[k] = word})

ColonOf(words, i) ==
    LET closes == {j \in i + 1 .. Len(words) :
                      /\ words[j] = ":"
                      /\ Count(words, ":", i + 1, j) = Count(words, "?", i + 1, j) + 1}
    IN  IF closes = {} THEN 0 ELSE CHOOSE j \in closes : \A k \in closes : j <= k

FirstQuestion(words) ==
    LET at == {i \in 1 .. Len(words) : words[i] = "?"}
    IN  IF at = {} THEN 0 ELSE CHOOSE i \in at : \A k \in at : i <= k

\* an unparenthesised sequence of operands and operators
RECURSIVE IsSequence(_)
IsSequence(words) ==
    LET i == FirstQuestion(words)
        j == ColonOf(words, i)
    IN  IF i = 0 THEN IsChain(words)
        ELSE /\ j > 0
             /\ IsChain(SubSeq(words, 1, i - 1))
             /\ IsSequence(SubSeq(words, i + 1, j - 1))
             /\ IsSequence(SubSeq(words, j + 1, Len(words)))

\* the tree of a chain by the binding order: the last binary operator of the
\* loosest level present splits the chain, its left side at the same level,
\* its right side at the tighter ones; unary operators bind tightest
RECURSIVE Grouped(_, _)
Grouped(words, level) ==
    LET at == {i \in 1 .. Len(words) :
                  BinaryAt(words, i) /\ OperatorLevel(words[i]) = level}
        i == CHOOSE k \in at : \A m \in at : m <= k
    IN  IF level = 6
        THEN IF words[1] = "-" THEN Unary("Neg", Grouped(Tail(words), 6))
             ELSE IF words[1] = "not" THEN Unary("Not", Grouped(Tail(words), 6))
             ELSE Variable(words[1])
        ELSE IF at = {} THEN Grouped(words, level + 1)
        ELSE Binary(OperatorOf(words[i]),
                    Grouped(SubSeq(words, 1, i - 1), level),
                    Grouped(SubSeq(words, i + 1, Len(words)), level + 1))

\* the tree of a sequence: the first "?" takes all to its left as condition,
\* and all after its ":" as its else branch
RECURSIVE GroupedTernary(_)
GroupedTernary(words) ==
    LET i == FirstQuestion(words)
        j == ColonOf(words, i)
    IN  IF i = 0 THEN Grouped(words, 1)
        ELSE Ternary(Grouped(SubSeq(words, 1, i - 1), 1),
                     GroupedTernary(SubSeq(words, i + 1, j - 1)),
                     GroupedTernary(SubSeq(words, j + 1, Len(words))))

\* C12: the tree parse builds for an unparenthesised sequence of operands and
\* operators groups them by the binding order unary > multiplicative >
\* additive > comparison > and > or > ternary, operators of one level to the
\* left, the ternary to the right with the whole or-level expression to its
\* left as condition.
C12_BindingOrder ==
    (FormulaReturned("parse") /\ IsSequence(Split(fm_expression))) =>
        fm_out.result = Ok(GroupedTernary(Split(fm_expression)))

\* a - b - c is (a - b) - c
C12_Witness ==
    /\ FormulaReturned("parse")
    /\ fm_expression = "a - b - c"
    /\ fm_out.result =
          Ok(Binary("Sub", Binary("Sub", Variable("a"), Variable("b")), Variable("c")))

\* a ? b : c ? d : e is a ? b : (c ? d : e)
C12_TernaryWitness ==
    /\ FormulaReturned("parse")
    /\ fm_expression = "a ? b : c ? d : e"
    /\ fm_out.result =
          Ok(Ternary(Variable("a"), Variable("b"),
                     Ternary(Variable("c"), Variable("d"), Variable("e"))))

-----------------------------------------------------------------------------
(* Calls of evaluate, and of compute on sequences of operands and operators *)

\* providers of the operands: a = 2, b = 0, c = 1.5 and 1 for the others, and
\* the same with a = NaN
OperandProviders ==
    {[name \in {"a", "b", "c", "d", "e", "f", "g"} |->
         CASE name = "a" -> first
           [] name = "b" -> Zero(FALSE)
           [] name = "c" -> OneAndHalf
           [] OTHER -> FromInt(1)] : first \in {FromInt(2), NaN}}

CoercionNext ==
    \/ fm_pc = "idle" /\ EvalNext
    \/ ev_pc = "idle" /\ fm_pc = "idle"
          /\ \E text \in OperatorTexts \cup TernaryTexts :
                \E vars \in OperandProviders : Compute(text, vars)

-----------------------------------------------------------------------------
(* Claims about the conversion of numbers and booleans *)

\* a value as a number: true is 1, false is 0
NumberOf(v) ==
    ValueNumber(IF v.type = "Number" THEN v.n
                ELSE IF v.b THEN FromInt(1) ELSE Zero(FALSE))

\* a value as a boolean: a number is true iff it is not zero
BooleanOf(v) == ValueBoolean(Truthy(v))

\* the value of an operand of the node evaluate returned from
ValueOf(expr) == evaluate(expr, ev_vars).result.v

Evaluates(expr) == evaluate(expr, ev_vars).result.ok

NumericBuiltins == {"min", "max", "round", "abs", "sqrt", "floor", "ceil"}

\* C14: a boolean operand of an arithmetic or comparison operator, of unary
\* minus or of a numeric built-in gives what the number 1 (true) or 0 (false)
\* gives in its place; a numeric operand of and, or, not, of the ternary
\* condition or of the if condition gives what the boolean "it is not zero"
\* gives in its place; compute returns 1.0 or 0.0 for a formula whose value
\* is a boolean; and nothing fails with TypeError.
C14_Interconversion ==
    /\ (Returned("Binary") /\ Evaluates(ev_expr.left) /\ Evaluates(ev_expr.right)) =>
          ev_out.result =
             IF ev_expr.op \in {"And", "Or"}
             THEN evaluate_binary(ev_expr.op, BooleanOf(ValueOf(ev_expr.left)),
                                  BooleanOf(ValueOf(ev_expr.right)))
             ELSE evaluate_binary(ev_expr.op, NumberOf(ValueOf(ev_expr.left)),
                                  NumberOf(ValueOf(ev_expr.right)))
    /\ (Returned("Unary") /\ Evaluates(ev_expr.expr)) =>
          ev_out.result =
             IF ev_expr.op = "Not"
             THEN evaluate_unary("Not", BooleanOf(ValueOf(ev_expr.expr)))
             ELSE evaluate_unary("Neg", NumberOf(ValueOf(ev_expr.expr)))
    /\ (Returned("FunctionCall") /\ FirstFailing(ev_expr.args, ev_vars) = 0) =>
          /\ \A b \in NumericBuiltins :
                (NamesBuiltin(ev_expr.name, b) /\ Len(ev_expr.args) = BuiltinArity[b]) =>
                   ev_out.result =
                      evaluate_function(b, [i \in 1 .. Len(ev_expr.args) |->
                                               NumberOf(ValueOf(ev_expr.args[i]))])
          /\ (NamesBuiltin(ev_expr.name, "if") /\ Len(ev_expr.args) = 3) =>
                ev_out.result =
                   Ok(IF BooleanOf(ValueOf(ev_expr.args[1])).b
                      THEN ValueOf(ev_expr.args[2]) ELSE ValueOf(ev_expr.args[3]))
    /\ (Returned("Ternary") /\ Evaluates(ev_expr.condition)) =>
          ev_out.result =
             evaluate(IF BooleanOf(ValueOf(ev_expr.condition)).b
                      THEN ev_expr.then_expr ELSE ev_expr.else_expr, ev_vars).result
    /\ (ev_pc = "done" /\ ~ev_out.result.ok) => ev_out.result.err.error # "TypeError"
    /\ FormulaReturned("compute") =>
          LET ast == parse(fm_expression)
              value == evaluate(ast.v, fm_vars).result
          IN  /\ (ast.ok /\ value.ok /\ value.v.type = "Boolean") =>
                    fm_out.result = Ok(IF value.v.b THEN FromInt(1) ELSE Zero(FALSE))
              /\ ~fm_out.result.ok => fm_out.result.err.error # "TypeError"

\* NaN and true: NaN is not zero, so the node is true
C14_Witness ==
    /\ Returned("Binary")
    /\ ev_expr = Binary("And", Number(NaN), Boolean(TRUE))
    /\ ev_out.result = Ok(ValueBoolean(TRUE))

\* true + 1.5 is 2.5
C14_BooleanAsNumber ==
    /\ Returned("Binary")
    /\ ev_expr = Binary("Add", Boolean(TRUE), Number(OneAndHalf))
    /\ ev_out.result = Ok(ValueNumber(F64(FALSE, 25, -1)))

\* compute of a < b < c with a = 2, b = 0, c = 1.5: (a < b) is false, which
\* counts as 0 and is less than c, and compute returns 1.0
C14_ComputeOfBoolean ==
    /\ FormulaReturned("compute")
    /\ fm_expression = "a < b < c"
    /\ fm_vars["a"] = FromInt(2)
    /\ fm_out.result = Ok(FromInt(1))

-----------------------------------------------------------------------------
(* Calls of validate_with_variables *)

\* the most arguments of a function call in a text
MaxCallArgs == 2

\* operands: three names, a number, and a missing operand
TextOperands == {"x", "y", "z", "1", ""}

\* the names of the calls: a built-in and a name that is no built-in
TextFunctions == {"min", "foo"}

RECURSIVE JoinArguments(_)
JoinArguments(args) ==
    IF Len(args) = 0 THEN ""
    ELSE IF Len(args) = 1 THEN args[1]
    ELSE args[1] \o ", " \o JoinArguments(Tail(args))

TernaryOf(Conditions, Thens, Elses) ==
    {c \o " ? " \o t \o " : " \o e : c \in Conditions, t \in Thens, e \in Elses}

CallOf(Arguments) ==
    {f \o "(" \o JoinArguments(args) \o ")" : f \in TextFunctions, args \in Arguments}

\* an operand, a unary or binary operator on operands, a ternary of operands,
\* a call with operands as arguments, a call with a ternary as argument, and
\* a ternary with a call as a branch
VariableTexts ==
    TextOperands
    \cup {"- " \o o : o \in TextOperands}
    \cup {l \o " + " \o r : l \in TextOperands, r \in TextOperands}
    \cup TernaryOf(TextOperands, TextOperands, TextOperands)
    \cup CallOf(UNION {[1 .. n -> TextOperands] : n \in 0 .. MaxCallArgs})
    \cup CallOf({<<a, t>> : a \in TextOperands,
                            t \in TernaryOf(TextOperands, TextOperands, TextOperands)})
    \cup TernaryOf(TextOperands, CallOf({<<a>> : a \in TextOperands}), TextOperands)

AvailableNames == {{}, {"x"}, {"x", "y"}, {"y", "z"}, {"x", "y", "z"}}

\* a call of validate_with_variables(text, available) and its return
ValidateWithVariables(text, available) ==
    /\ fm_pc = "idle"
    /\ fm_pc' = "done"
    /\ fm_call' = "validate_with_variables"
    /\ fm_expression' = text
    /\ fm_available' = available
    /\ fm_out' = Evaluated(validate_with_variables(text, available), << >>)
    /\ UNCHANGED fm_vars
    /\ UNCHANGED outside_fm

ValidateVariablesNext ==
    /\ fm_pc = "idle"
    /\ \E text \in VariableTexts : \E available \in AvailableNames :
          ValidateWithVariables(text, available)

-----------------------------------------------------------------------------
(* Claims about validate_with_variables *)

\* the variable names of a text from left to right, from char i on: the
\* words of letters, digits and "_" that start with a letter or "_" and are
\* not followed by "("
RECURSIVE NamesFrom(_, _)
NamesFrom(text, i) ==
    LET n == PrefixLen(text, "alphanumeric_", i)
        word == SubSeq(text, i, i + n - 1)
    IN  IF i > Len(text) THEN << >>
        ELSE IF n = 0 THEN NamesFrom(text, i + 1)
        ELSE IF \/ InClass("digit", CharAt(text, i))
                \/ (i + n <= Len(text) /\ CharAt(text, i + n) = "(")
        THEN NamesFrom(text, i + n)
        ELSE <<word>> \o NamesFrom(text, i + n)

\* the positions of the names that are not available
Missing(names, available) == {i \in 1 .. Len(names) : names[i] \notin available}

\* C15: validate_with_variables succeeds exactly when the text parses and
\* every variable name in it is available; for a text that parses and has a
\* name that is not, it fails with UnknownVariable of the leftmost such name.
\* The names of functions and the numbers of their arguments play no part.
C15_VariablesChecked ==
    FormulaReturned("validate_with_variables") =>
        LET names == NamesFrom(fm_expression, 1)
            missing == Missing(names, fm_available)
            parsed == parse(fm_expression)
        IN  /\ fm_out.result.ok <=> (parsed.ok /\ missing = {})
            /\ (parsed.ok /\ missing # {}) =>
                  fm_out.result =
                     Err(UnknownVariable(
                            names[CHOOSE i \in missing : \A j \in missing : i <= j]))

\* foo(x, x ? y : z) with x and y available: z, in the else branch of a
\* ternary that is an argument, is reported
C15_Witness ==
    /\ FormulaReturned("validate_with_variables")
    /\ fm_expression = "foo(x, x ? y : z)"
    /\ fm_available = {"x", "y"}
    /\ fm_out.result = Err(UnknownVariable("z"))

\* foo, which is no built-in, is called in a branch: the name is not checked
C15_FunctionsUnchecked ==
    /\ FormulaReturned("validate_with_variables")
    /\ fm_expression = "z ? foo(x) : y"
    /\ fm_available = {"x", "y", "z"}
    /\ fm_out.result = Ok(Unit)

-----------------------------------------------------------------------------
(* f32 of the statistics: the decimal floating point of f64 with one        *)
(* significant digit less, so that a cast from f64 to f32 rounds and a cast *)
(* from f32 to f64 is exact.                                                *)

\* 10^(significant digits of an f32)
F32MantissaLimit == Pow10(Digits - 1)

\* `x as f32`
as_f32(x) ==
    IF x.k = "fin" /\ x.m >= F32MantissaLimit
    THEN F64(x.neg, (x.m \div 10) + (IF x.m % 10 >= 5 THEN 1 ELSE 0), x.e + 1)
    ELSE x

\* an i32 or a literal as an f32
f32_from(n) == as_f32(FromInt(n))

f32_sub(a, b) == as_f32(f64_sub(a, b))

f32_div(a, b) == as_f32(f64_div(a, b))

\* f32::MAX and f32::MIN (3.40e38 and -3.40e38)
F32_MAX == F64(FALSE, 340, 36)

F32_MIN == F64(TRUE, 340, 36)

-----------------------------------------------------------------------------
(* metrics.rs: DepthClass, DiveStats and SegmentStats *)

from_depth_m(depth) ==
    IF f64_le(depth, f32_from(18)) THEN "Recreational"
    ELSE IF f64_le(depth, f32_from(40)) THEN "Deep"
    ELSE IF f64_le(depth, f32_from(60)) THEN "Extended"
    ELSE "Extreme"

\* a + b in an i32, for b >= 0: a sum above i32::MAX wraps around (a build
\* with overflow checks panics instead)
i32_add(a, b) ==
    IF a > I32_MAX - b THEN (a - I32_MAX - 1) + (b - I32_MAX - 1) ELSE a + b

\* an interval that is the time to the next sample only: none for the last
interval_to_next(ss, i) ==
    IF i + 1 <= Len(ss) THEN ss[i + 1].t_sec - ss[i].t_sec
    ELSE IF i > 1 THEN 0
    ELSE 1

\* the interval of sample i (counted from 1): to the next sample, for the
\* last sample from the previous one, and 1 for a single sample
interval_of(ss, i) ==
    IF i + 1 <= Len(ss) THEN ss[i + 1].t_sec - ss[i].t_sec
    ELSE IF i > 1 THEN ss[i].t_sec - ss[i - 1].t_sec
    ELSE 1

\* the values of the local variables of DiveStats::compute before the loop
dive_stats_start ==
    [max_depth_m |-> Zero(FALSE), depth_sum |-> Zero(FALSE),
     weighted_depth_sum |-> Zero(FALSE), weight_sum |-> Zero(FALSE),
     min_temp_c |-> F32_MAX, max_temp_c |-> F32_MIN, temp_sum |-> Zero(FALSE),
     deco_time_sec |-> 0, max_ceiling_m |-> Zero(FALSE), max_gf99 |-> Zero(FALSE),
     gas_switch_count |-> 0, prev_gasmix_index |-> None, bottom_time_sec |-> 0]

\* an iteration in which a sample without an index resets the comparison
dive_stats_step_forgets(ss, i, acc) ==
    [acc EXCEPT
       !.gas_switch_count =
          IF /\ ss[i].gasmix_index.some
             /\ acc.prev_gasmix_index.some
             /\ ss[i].gasmix_index.v # acc.prev_gasmix_index.v
          THEN acc.gas_switch_count + 1
          ELSE acc.gas_switch_count,
       !.prev_gasmix_index = ss[i].gasmix_index]

\* one iteration of the loop of DiveStats::compute, for sample i (from 1)
dive_stats_step(ss, i, acc) ==
    [max_depth_m |->
        IF f64_gt(ss[i].depth_m, acc.max_depth_m) THEN ss[i].depth_m
        ELSE acc.max_depth_m,
     depth_sum |-> f64_add(acc.depth_sum, ss[i].depth_m),
     weighted_depth_sum |->
        f64_add(acc.weighted_depth_sum,
                f64_mul(ss[i].depth_m, FromInt(interval_of(ss, i)))),
     weight_sum |-> f64_add(acc.weight_sum, FromInt(interval_of(ss, i))),
     min_temp_c |->
        IF f64_lt(ss[i].temp_c, acc.min_temp_c) THEN ss[i].temp_c
        ELSE acc.min_temp_c,
     max_temp_c |->
        IF f64_gt(ss[i].temp_c, acc.max_temp_c) THEN ss[i].temp_c
        ELSE acc.max_temp_c,
     temp_sum |-> f64_add(acc.temp_sum, ss[i].temp_c),
     deco_time_sec |->
        IF ss[i].ceiling_m.some /\ f64_gt(ss[i].ceiling_m.v, Zero(FALSE))
        THEN i32_add(acc.deco_time_sec, interval_of(ss, i))
        ELSE acc.deco_time_sec,
     max_ceiling_m |->
        IF ss[i].ceiling_m.some /\ f64_gt(ss[i].ceiling_m.v, acc.max_ceiling_m)
        THEN ss[i].ceiling_m.v
        ELSE acc.max_ceiling_m,
     max_gf99 |->
        IF ss[i].gf99.some /\ f64_gt(ss[i].gf99.v, acc.max_gf99)
        THEN ss[i].gf99.v
        ELSE acc.max_gf99,
     gas_switch_count |->
        IF /\ ss[i].gasmix_index.some
           /\ acc.prev_gasmix_index.some
           /\ ss[i].gasmix_index.v # acc.prev_gasmix_index.v
        THEN acc.gas_switch_count + 1
        ELSE acc.gas_switch_count,
     prev_gasmix_index |->
        IF ss[i].gasmix_index.some THEN Some(ss[i].gasmix_index.v)
        ELSE acc.prev_gasmix_index,
     bottom_time_sec |->
        IF f64_gt(ss[i].depth_m, f32_from(3))
        THEN i32_add(acc.bottom_time_sec, interval_of(ss, i))
        ELSE acc.bottom_time_sec]

\* the loop of DiveStats::compute from sample i on
RECURSIVE dive_stats_loop(_, _, _)
dive_stats_loop(ss, i, acc) ==
    IF i > Len(ss) THEN acc
    ELSE dive_stats_loop(ss, i + 1, dive_stats_step(ss, i, acc))

\* samples.iter().map(|s| s.depth_m).fold(f32::NEG_INFINITY, f32::max)
RECURSIVE fold_max_depth(_, _, _)
fold_max_depth(ss, i, acc) ==
    IF i > Len(ss) THEN acc
    ELSE fold_max_depth(ss, i + 1, f64_max(acc, ss[i].depth_m))

\* the position of the last sample at max_depth instead of the first
position_of_last(ss, max_depth) ==
    IF \E i \in 1 .. Len(ss) : f64_eq(ss[i].depth_m, max_depth)
    THEN (CHOOSE i \in 1 .. Len(ss) :
             /\ f64_eq(ss[i].depth_m, max_depth)
             /\ \A j \in i + 1 .. Len(ss) : ~f64_eq(ss[j].depth_m, max_depth)) - 1
    ELSE 0

\* samples.iter().position(|s| s.depth_m == max_depth).unwrap_or(0), as an
\* index from 0
first_position(ss, max_depth) ==
    IF \E i \in 1 .. Len(ss) : f64_eq(ss[i].depth_m, max_depth)
    THEN (CHOOSE i \in 1 .. Len(ss) :
             /\ f64_eq(ss[i].depth_m, max_depth)
             /\ \A j \in 1 .. i - 1 : ~f64_eq(ss[j].depth_m, max_depth)) - 1
    ELSE 0

\* samples.iter().rev().position(|s| s.depth_m == max_depth).unwrap_or(0)
rev_position(ss, max_depth) ==
    IF \E i \in 1 .. Len(ss) : f64_eq(ss[i].depth_m, max_depth)
    THEN Len(ss) - (CHOOSE i \in 1 .. Len(ss) :
                       /\ f64_eq(ss[i].depth_m, max_depth)
                       /\ \A j \in i + 1 .. Len(ss) :
                             ~f64_eq(ss[j].depth_m, max_depth))
    ELSE 0

\* lines 307-317; the indexes count from 0, as in the source
descent_rate(ss, first_max_idx) ==
    IF first_max_idx > 0
    THEN IF f64_gt(f32_div(f32_from(ss[first_max_idx + 1].t_sec - ss[1].t_sec),
                           f32_from(60)), Zero(FALSE))
         THEN f32_div(ss[first_max_idx + 1].depth_m,
                      f32_div(f32_from(ss[first_max_idx + 1].t_sec - ss[1].t_sec),
                              f32_from(60)))
         ELSE Zero(FALSE)
    ELSE Zero(FALSE)

\* an ascent rate per second: the elapsed time is not divided by 60
ascent_rate_per_second(ss, last_max_idx) ==
    IF last_max_idx < Len(ss) - 1
    THEN IF f64_gt(f32_from(ss[Len(ss)].t_sec - ss[last_max_idx + 1].t_sec),
                   Zero(FALSE))
         THEN f32_div(f32_sub(ss[last_max_idx + 1].depth_m, ss[Len(ss)].depth_m),
                      f32_from(ss[Len(ss)].t_sec - ss[last_max_idx + 1].t_sec))
         ELSE Zero(FALSE)
    ELSE Zero(FALSE)

\* lines 319-330
ascent_rate(ss, last_max_idx) ==
    IF last_max_idx < Len(ss) - 1
    THEN IF f64_gt(f32_div(f32_from(ss[Len(ss)].t_sec - ss[last_max_idx + 1].t_sec),
                           f32_from(60)), Zero(FALSE))
         THEN f32_div(f32_sub(ss[last_max_idx + 1].depth_m, ss[Len(ss)].depth_m),
                      f32_div(f32_from(ss[Len(ss)].t_sec - ss[last_max_idx + 1].t_sec),
                              f32_from(60)))
         ELSE Zero(FALSE)
    ELSE Zero(FALSE)

\* the pair (descent_rate, ascent_rate)
compute_rates(ss) ==
    IF Len(ss) < 2 THEN <<Zero(FALSE), Zero(FALSE)>>
    ELSE <<descent_rate(ss, first_position(ss, fold_max_depth(ss, 1, Infinity(TRUE)))),
           ascent_rate(ss, Len(ss) - 1
                              - rev_position(ss, fold_max_depth(ss, 1, Infinity(TRUE))))>>

from_dive_only(dive) ==
    [total_time_sec |-> dive.end_time_unix - dive.start_time_unix,
     bottom_time_sec |-> dive.bottom_time_sec,
     deco_time_sec |-> 0,
     max_depth_m |-> Zero(FALSE),
     avg_depth_m |-> Zero(FALSE),
     weighted_avg_depth_m |-> Zero(FALSE),
     min_temp_c |-> Zero(FALSE),
     max_temp_c |-> Zero(FALSE),
     avg_temp_c |-> Zero(FALSE),
     depth_class |-> "Recreational",
     gas_switch_count |-> 0,
     max_ceiling_m |-> Zero(FALSE),
     max_gf99 |-> Zero(FALSE),
     descent_rate_m_min |-> Zero(FALSE),
     ascent_rate_m_min |-> Zero(FALSE)]

\* lines 211-256: the DiveStats built from the variables after the loop
dive_stats_of(dive, ss, acc, rates) ==
    [total_time_sec |-> dive.end_time_unix - dive.start_time_unix,
     bottom_time_sec |-> acc.bottom_time_sec,
     deco_time_sec |-> acc.deco_time_sec,
     max_depth_m |-> acc.max_depth_m,
     avg_depth_m |-> as_f32(f64_div(acc.depth_sum, FromInt(Len(ss)))),
     weighted_avg_depth_m |->
        IF f64_gt(acc.weight_sum, Zero(FALSE))
        THEN as_f32(f64_div(acc.weighted_depth_sum, acc.weight_sum))
        ELSE as_f32(f64_div(acc.depth_sum, FromInt(Len(ss)))),
     min_temp_c |->
        IF f64_eq(acc.min_temp_c, F32_MAX) THEN Zero(FALSE) ELSE acc.min_temp_c,
     max_temp_c |->
        IF f64_eq(acc.max_temp_c, F32_MIN) THEN Zero(FALSE) ELSE acc.max_temp_c,
     avg_temp_c |-> as_f32(f64_div(acc.temp_sum, FromInt(Len(ss)))),
     depth_class |-> from_depth_m(acc.max_depth_m),
     gas_switch_count |-> acc.gas_switch_count,
     max_ceiling_m |-> acc.max_ceiling_m,
     max_gf99 |-> acc.max_gf99,
     descent_rate_m_min |-> rates[1],
     ascent_rate_m_min |-> rates[2]]

\* DiveStats::compute(dive, samples)
DiveStats_compute(dive, ss) ==
    IF Len(ss) = 0 THEN from_dive_only(dive)
    ELSE dive_stats_of(dive, ss, dive_stats_loop(ss, 1, dive_stats_start),
                       compute_rates(ss))

\* a filter that leaves out a sample at end_t_sec
in_segment_before_end(start_t_sec, end_t_sec, s) ==
    s.t_sec >= start_t_sec /\ s.t_sec < end_t_sec

\* the filter of lines 360-361
in_segment(start_t_sec, end_t_sec, s) ==
    s.t_sec >= start_t_sec /\ s.t_sec <= end_t_sec

\* all_samples.iter().filter(..).collect(), from sample i on
RECURSIVE filter_samples(_, _, _, _)
filter_samples(start_t_sec, end_t_sec, all_samples, i) ==
    IF i > Len(all_samples) THEN << >>
    ELSE IF in_segment(start_t_sec, end_t_sec, all_samples[i])
    THEN <<all_samples[i]>> \o filter_samples(start_t_sec, end_t_sec, all_samples, i + 1)
    ELSE filter_samples(start_t_sec, end_t_sec, all_samples, i + 1)

\* the values of the local variables of SegmentStats::compute before the loop
segment_stats_start ==
    [max_depth_m |-> Zero(FALSE), depth_sum |-> Zero(FALSE),
     min_temp_c |-> F32_MAX, max_temp_c |-> F32_MIN, deco_time_sec |-> 0]

\* one iteration of the loop of SegmentStats::compute, for sample i (from 1)
segment_stats_step(ss, i, acc) ==
    [max_depth_m |->
        IF f64_gt(ss[i].depth_m, acc.max_depth_m) THEN ss[i].depth_m
        ELSE acc.max_depth_m,
     depth_sum |-> f64_add(acc.depth_sum, ss[i].depth_m),
     min_temp_c |->
        IF f64_lt(ss[i].temp_c, acc.min_temp_c) THEN ss[i].temp_c
        ELSE acc.min_temp_c,
     max_temp_c |->
        IF f64_gt(ss[i].temp_c, acc.max_temp_c) THEN ss[i].temp_c
        ELSE acc.max_temp_c,
     deco_time_sec |->
        IF ss[i].ceiling_m.some /\ f64_gt(ss[i].ceiling_m.v, Zero(FALSE))
        THEN i32_add(acc.deco_time_sec, interval_of(ss, i))
        ELSE acc.deco_time_sec]

RECURSIVE segment_stats_loop(_, _, _)
segment_stats_loop(ss, i, acc) ==
    IF i > Len(ss) THEN acc
    ELSE segment_stats_loop(ss, i + 1, segment_stats_step(ss, i, acc))

\* lines 414-424: the SegmentStats built from the variables after the loop
segment_stats_of(start_t_sec, end_t_sec, ss, acc) ==
    [duration_sec |-> end_t_sec - start_t_sec,
     max_depth_m |-> acc.max_depth_m,
     avg_depth_m |-> as_f32(f64_div(acc.depth_sum, FromInt(Len(ss)))),
     min_temp_c |->
        IF f64_eq(acc.min_temp_c, F32_MAX) THEN Zero(FALSE) ELSE acc.min_temp_c,
     max_temp_c |->
        IF f64_eq(acc.max_temp_c, F32_MIN) THEN Zero(FALSE) ELSE acc.max_temp_c,
     deco_time_sec |-> acc.deco_time_sec,
     sample_count |-> Len(ss)]

\* lines 363-373 and 375-424, for the samples left by the filter
segment_stats_filtered(start_t_sec, end_t_sec, ss) ==
    IF Len(ss) = 0
    THEN [duration_sec |-> end_t_sec - start_t_sec,
          max_depth_m |-> Zero(FALSE),
          avg_depth_m |-> Zero(FALSE),
          min_temp_c |-> Zero(FALSE),
          max_temp_c |-> Zero(FALSE),
          deco_time_sec |-> 0,
          sample_count |-> 0]
    ELSE segment_stats_of(start_t_sec, end_t_sec, ss,
                          segment_stats_loop(ss, 1, segment_stats_start))

\* SegmentStats::compute(start_t_sec, end_t_sec, all_samples)
SegmentStats_compute(start_t_sec, end_t_sec, all_samples) ==
    segment_stats_filtered(start_t_sec, end_t_sec,
                           filter_samples(start_t_sec, end_t_sec, all_samples, 1))

-----------------------------------------------------------------------------
(* The calls of the statistics that are explored *)

\* a sample with a time offset and a depth, as the tests build them
SampleAt(t_sec, depth_m) ==
    [t_sec |-> t_sec, depth_m |-> f32_from(depth_m), temp_c |-> f32_from(20),
     setpoint_ppo2 |-> None, ceiling_m |-> None, gf99 |-> None,
     gasmix_index |-> None]

\* create_test_dive of the tests
TestDive ==
    [start_time_unix |-> 1700000000, end_time_unix |-> 1700003600,
     bottom_time_sec |-> 3000]

\* a call of DiveStats::compute(dive, ss) and its return
DiveStatsCompute(dive, ss) ==
    /\ ms_pc = "idle"
    /\ ms_pc' = "done"
    /\ ms_call' = "DiveStats::compute"
    /\ ms_samples' = ss
    /\ ms_out' = DiveStats_compute(dive, ss)
    /\ UNCHANGED <<ms_start_t_sec, ms_end_t_sec>>
    /\ UNCHANGED outside_ms

\* a call of SegmentStats::compute(start_t_sec, end_t_sec, ss) and its return
SegmentStatsCompute(start_t_sec, end_t_sec, ss) ==
    /\ ms_pc = "idle"
    /\ ms_pc' = "done"
    /\ ms_call' = "SegmentStats::compute"
    /\ ms_samples' = ss
    /\ ms_start_t_sec' = start_t_sec
    /\ ms_end_t_sec' = end_t_sec
    /\ ms_out' = SegmentStats_compute(start_t_sec, end_t_sec, ss)
    /\ UNCHANGED outside_ms

MetricsInit ==
    /\ ms_pc = "idle"
    /\ ms_call = ""
    /\ ms_samples = << >>
    /\ ms_start_t_sec = 0
    /\ ms_end_t_sec = 0
    /\ ms_out = from_dive_only(TestDive)

MetricsReturned(call) == ms_pc = "done" /\ ms_call = call

\* the longest series of the calls that vary times and depths
MaxRateSamples == 4

\* seconds from a sample to the next (time offsets do not decrease)
RateGaps == {0, 90}

RateDepths == {0, 10, 30}

\* the series whose sample i is RateGaps seconds after sample i - 1
RECURSIVE SeriesOf(_, _, _)
SeriesOf(steps, i, t_sec) ==
    IF i > Len(steps) THEN << >>
    ELSE <<SampleAt(t_sec + steps[i][1], steps[i][2])>>
            \o SeriesOf(steps, i + 1, t_sec + steps[i][1])

RateSeries ==
    {SeriesOf(steps, 1, 0) :
        steps \in UNION {[1 .. n -> RateGaps \X RateDepths] : n \in 0 .. MaxRateSamples}}

\* a descent to 30 m in a minute, 19 minutes at 30 m and an ascent in three
\* steps of a minute
SquareProfile ==
    <<SampleAt(0, 0), SampleAt(60, 30), SampleAt(1200, 30), SampleAt(1260, 20),
      SampleAt(1320, 10), SampleAt(1380, 0)>>

RatesNext ==
    \/ ms_pc = "idle" /\ \E ss \in RateSeries : DiveStatsCompute(TestDive, ss)
    \/ ms_pc = "idle" /\ DiveStatsCompute(TestDive, SquareProfile)

-----------------------------------------------------------------------------
(* Claims about the descent and ascent rates *)

\* DiveStats::compute has returned for the series of six samples
SquareProfileReturned ==
    MetricsReturned("DiveStats::compute") /\ ms_samples = SquareProfile

\* C16 as the specification states it: max depth 30, class Deep, descent
\* rate 30 m/min and ascent rate 90 m/min
C16_Original ==
    SquareProfileReturned =>
        /\ ms_out.max_depth_m = f32_from(30)
        /\ ms_out.depth_class = "Deep"
        /\ ms_out.descent_rate_m_min = f32_from(30)
        /\ ms_out.ascent_rate_m_min = f32_from(90)

\* C16: for the series of six samples the max depth is 30, the class Deep,
\* the descent rate 30 m/min (30 m in the minute to t = 60) and the ascent
\* rate 10 m/min (30 m in the three minutes from t = 1200 to t = 1380)
C16_SquareProfile ==
    SquareProfileReturned =>
        /\ ms_out.max_depth_m = f32_from(30)
        /\ ms_out.depth_class = "Deep"
        /\ ms_out.descent_rate_m_min = f32_from(30)
        /\ ms_out.ascent_rate_m_min = f32_from(10)

C16_Witness ==
    /\ SquareProfileReturned
    /\ ms_out.ascent_rate_m_min = f32_div(f32_from(30), f32_from(3))

\* the deepest depth of a series that is not empty
MaxDepthOf(ss) ==
    ss[CHOOSE i \in 1 .. Len(ss) :
          \A j \in 1 .. Len(ss) : f64_le(ss[j].depth_m, ss[i].depth_m)].depth_m

\* the samples at which that depth occurs
AtMaxDepth(ss) == {i \in 1 .. Len(ss) : f64_eq(ss[i].depth_m, MaxDepthOf(ss))}

FirstAtMax(ss) == CHOOSE i \in AtMaxDepth(ss) : \A j \in AtMaxDepth(ss) : i <= j

LastAtMax(ss) == CHOOSE i \in AtMaxDepth(ss) : \A j \in AtMaxDepth(ss) : i >= j

\* the minutes from sample i to sample j
MinutesBetween(ss, i, j) == f32_div(f32_from(ss[j].t_sec - ss[i].t_sec), f32_from(60))

\* C17: for at least two samples the descent rate is the maximum depth over
\* the minutes from the first sample to the first sample at the maximum
\* depth, the ascent rate the drop from the maximum depth to the last sample
\* over the minutes from the last sample at the maximum depth to the last
\* sample; a rate is 0 when the maximum is at the first (last) sample or when
\* its elapsed time is 0; both are 0 for fewer than two samples
C17_Rates ==
    MetricsReturned("DiveStats::compute") =>
        LET ss == ms_samples
            n == Len(ss)
        IN  IF n < 2
            THEN /\ ms_out.descent_rate_m_min = Zero(FALSE)
                 /\ ms_out.ascent_rate_m_min = Zero(FALSE)
            ELSE /\ ms_out.descent_rate_m_min =
                       IF FirstAtMax(ss) = 1 \/ ss[FirstAtMax(ss)].t_sec = ss[1].t_sec
                       THEN Zero(FALSE)
                       ELSE f32_div(MaxDepthOf(ss), MinutesBetween(ss, 1, FirstAtMax(ss)))
                 /\ ms_out.ascent_rate_m_min =
                       IF LastAtMax(ss) = n \/ ss[n].t_sec = ss[LastAtMax(ss)].t_sec
                       THEN Zero(FALSE)
                       ELSE f32_div(f32_sub(MaxDepthOf(ss), ss[n].depth_m),
                                    MinutesBetween(ss, LastAtMax(ss), n))

\* the maximum depth occurs at two samples that are neither first nor last,
\* and both rates are positive
C17_Witness ==
    /\ MetricsReturned("DiveStats::compute")
    /\ Len(ms_samples) = 4
    /\ FirstAtMax(ms_samples) = 2
    /\ LastAtMax(ms_samples) = 3
    /\ f64_gt(ms_out.descent_rate_m_min, Zero(FALSE))
    /\ f64_gt(ms_out.ascent_rate_m_min, Zero(FALSE))
    /\ ms_out.descent_rate_m_min # ms_out.ascent_rate_m_min

-----------------------------------------------------------------------------
(* Calls that vary the gas-mix index and the setpoint *)

\* the longest series of these calls
MaxSwitchSamples == 4

SwitchGasIndexes == {None, Some(0), Some(1)}

\* no setpoint (open circuit) and a setpoint of 1.3
SwitchSetpoints == {None, Some(as_f32(F64(FALSE, 13, -1)))}

\* sample i of a series, a minute after sample i - 1, at 10 m
SwitchSampleAt(i, gasmix_index, setpoint_ppo2) ==
    [SampleAt(60 * (i - 1), 10) EXCEPT !.gasmix_index = gasmix_index,
                                       !.setpoint_ppo2 = setpoint_ppo2]

SwitchSeries ==
    {[i \in 1 .. n |-> SwitchSampleAt(i, indexes[i], setpoints[i])] :
        <<n, indexes, setpoints>> \in
           UNION {{n} \X [1 .. n -> SwitchGasIndexes] \X [1 .. n -> SwitchSetpoints] :
                     n \in 0 .. MaxSwitchSamples}}

GasSwitchNext ==
    /\ ms_pc = "idle"
    /\ \E ss \in SwitchSeries : DiveStatsCompute(TestDive, ss)

-----------------------------------------------------------------------------
(* Claims about gas_switch_count *)

\* the gas-mix indexes of the samples that carry one, in order
RECURSIVE PresentIndexes(_)
PresentIndexes(ss) ==
    IF ss = << >> THEN << >>
    ELSE IF Head(ss).gasmix_index.some
    THEN <<Head(ss).gasmix_index.v>> \o PresentIndexes(Tail(ss))
    ELSE PresentIndexes(Tail(ss))

\* the positions of a sequence whose element differs from the one before
Changes(seq) == {k \in 2 .. Len(seq) : seq[k] # seq[k - 1]}

-----------------------------------------------------------------------------
(* Calls of SegmentStats::compute *)

\* the longest series of these calls
MaxSegmentSamples == 3

\* seconds from a sample to the next
SegmentGaps == {0, 60}

\* depth, temperature and ceiling of a sample
SegmentReadings ==
    {<<10, 20, None>>, <<30, 16, Some(f32_from(3))>>,
     <<30, 20, Some(Zero(FALSE))>>, <<10, 16, Some(f32_from(3))>>}

\* the series whose sample i is steps[i][1] seconds after sample i - 1
RECURSIVE SegmentSeriesOf(_, _, _)
SegmentSeriesOf(steps, i, t_sec) ==
    IF i > Len(steps) THEN << >>
    ELSE <<[SampleAt(t_sec + steps[i][1], steps[i][2][1]) EXCEPT
               !.temp_c = f32_from(steps[i][2][2]),
               !.ceiling_m = steps[i][2][3]]>>
            \o SegmentSeriesOf(steps, i + 1, t_sec + steps[i][1])

SegmentSeries ==
    {SegmentSeriesOf(steps, 1, 0) :
        steps \in UNION {[1 .. n -> SegmentGaps \X SegmentReadings] :
                            n \in 0 .. MaxSegmentSamples}}

\* the bounds start_t_sec and end_t_sec
SegmentWindows == {<<0, 60>>, <<60, 120>>, <<60, 60>>, <<30, 200>>}

SegmentNext ==
    /\ ms_pc = "idle"
    /\ \E ss \in SegmentSeries : \E window \in SegmentWindows :
          SegmentStatsCompute(window[1], window[2], ss)

-----------------------------------------------------------------------------
(* Claims about SegmentStats::compute *)

InWindow(s) == ms_start_t_sec <= s.t_sec /\ s.t_sec <= ms_end_t_sec

\* the samples of the call with start <= t_sec <= end
Selected == SelectSeq(ms_samples, InWindow)

\* C19: SegmentStats::compute reports the number of samples with
\* start <= t_sec <= end as sample_count, and its max depth, average depth,
\* minimum and maximum temperature and deco time are those of
\* DiveStats::compute on these samples alone
C19_SegmentOfSelected ==
    MetricsReturned("SegmentStats::compute") =>
        /\ ms_out.sample_count = Len(Selected)
        /\ ms_out.max_depth_m = DiveStats_compute(TestDive, Selected).max_depth_m
        /\ ms_out.avg_depth_m = DiveStats_compute(TestDive, Selected).avg_depth_m
        /\ ms_out.min_temp_c = DiveStats_compute(TestDive, Selected).min_temp_c
        /\ ms_out.max_temp_c = DiveStats_compute(TestDive, Selected).max_temp_c
        /\ ms_out.deco_time_sec = DiveStats_compute(TestDive, Selected).deco_time_sec

\* three samples at 0, 60 and 120 s and the window [60, 120]: the samples at
\* both bounds are selected, the first is not, and there is deco time
C19_Witness ==
    /\ MetricsReturned("SegmentStats::compute")
    /\ Len(ms_samples) = 3
    /\ ms_samples[1].t_sec = 0
    /\ ms_samples[2].t_sec = ms_start_t_sec
    /\ ms_samples[3].t_sec = ms_end_t_sec
    /\ ms_start_t_sec < ms_end_t_sec
    /\ ms_out.sample_count = 2
    /\ ms_out.deco_time_sec > 0
    /\ ms_out.max_depth_m # DiveStats_compute(TestDive, ms_samples).max_depth_m

-----------------------------------------------------------------------------
(* Calls of compute_surface_gf in flight together.  Every call has a frame   *)
(* with its arguments and local variables; a step of a caller is a step of  *)
(* compute_surface_gf on the frame of that caller.                          *)

\* the number of callers
MaxCallers == 2

Callers == 1 .. MaxCallers

\* the frame of a caller that has not called
IdleFrame ==
    [pc |-> "idle", samples |-> << >>, gas_mixes |-> << >>,
     surface_pressure_bar |-> None, surface_p |-> 0, gas_lookup |-> << >>,
     current_fo2 |-> 0, current_fhe |-> 0, tissues |-> None, idx |-> 0,
     results |-> << >>]

\* buhlmann.rs lines 202-226: the frame after the call, up to the loop (or at
\* the early return for an empty slice)
frame_of_call(ss, mixes, surface_pressure_bar) ==
    IF ss = << >>
    THEN [IdleFrame EXCEPT !.pc = "done", !.samples = ss, !.gas_mixes = mixes,
                           !.surface_pressure_bar = surface_pressure_bar]
    ELSE [pc |-> "loop", samples |-> ss, gas_mixes |-> mixes,
          surface_pressure_bar |-> surface_pressure_bar,
          surface_p |-> IF surface_pressure_bar.some THEN surface_pressure_bar.v
                        ELSE DEFAULT_SURFACE_PRESSURE,
          gas_lookup |-> build_lookup(mixes, Len(mixes)),
          current_fo2 |-> default_gas(build_lookup(mixes, Len(mixes)))[1],
          current_fhe |-> default_gas(build_lookup(mixes, Len(mixes)))[2],
          tissues |-> surface_equilibrium(
                         IF surface_pressure_bar.some THEN surface_pressure_bar.v
                         ELSE DEFAULT_SURFACE_PRESSURE),
          idx |-> 0,
          results |-> << >>]

\* lines 228-263: the frame after one iteration of the loop on frame, with
\* the gas that is breathed before the iteration given
frame_after(frame, fo2, fhe) ==
    LET sample == frame.samples[frame.idx + 1]
        iv == interval_at(frame.samples, frame.idx, frame.surface_p, fo2, fhe)
        ts == IF frame.idx > 0 THEN update(frame.tissues, iv.dt_sec, iv.n2, iv.he)
              ELSE frame.tissues
        cur == switch_gas(<<fo2, fhe>>, sample, frame.gas_lookup)
    IN  [frame EXCEPT !.tissues = ts,
                      !.current_fo2 = cur[1],
                      !.current_fhe = cur[2],
                      !.results = Append(frame.results,
                                         make_point(sample, ts, frame.surface_p)),
                      !.idx = frame.idx + 1]

\* an iteration of caller c that breathes the gas the first caller has
\* switched to: one current gas for all calls
iterate_with_shared_gas(frames, c) ==
    frame_after(frames[c],
                IF frames[1].pc = "idle" THEN frames[c].current_fo2
                ELSE frames[1].current_fo2,
                IF frames[1].pc = "idle" THEN frames[c].current_fhe
                ELSE frames[1].current_fhe)

\* an iteration of caller c: it reads and writes the frame of c only
iterate(frames, c) ==
    frame_after(frames[c], frames[c].current_fo2, frames[c].current_fhe)

\* the loop run to its end on one frame
RECURSIVE run_loop(_)
run_loop(frame) ==
    IF frame.pc = "loop" /\ frame.idx < Len(frame.samples)
    THEN run_loop(frame_after(frame, frame.current_fo2, frame.current_fhe))
    ELSE frame

\* what a call returns when it runs alone
compute_surface_gf(ss, mixes, surface_pressure_bar) ==
    run_loop(frame_of_call(ss, mixes, surface_pressure_bar)).results

GfSample(t_sec, depth_m, gasmix_index) ==
    [t_sec |-> t_sec, depth_m |-> depth_m, gasmix_index |-> gasmix_index]

\* the calls that are made: a descent with a switch to EAN50 at sea level, a
\* stay at 30 m on EAN50 and EAN32 at altitude with a sample that repeats a
\* time offset, and an ascent on air without a gas table
ConcurrentCalls ==
    {<<<<GfSample(0, 0, None), GfSample(1200, 30, Some(1))>>, <<Trimix, Ean50>>, None>>,
     <<<<GfSample(0, 30, Some(1)), GfSample(1200, 30, None), GfSample(1200, 0, Some(0))>>,
       <<Ean50, Ean32>>, Some(32800)>>,
     <<<<GfSample(0, 30, None), GfSample(1200, 0, None)>>, << >>, None>>}

\* caller c calls compute_surface_gf
CallerCalls(c, ss, mixes, surface_pressure_bar) ==
    /\ calls[c].pc = "idle"
    /\ calls' = [calls EXCEPT ![c] = frame_of_call(ss, mixes, surface_pressure_bar)]
    /\ UNCHANGED outside_calls

\* one iteration of the loop of caller c
CallerIterates(c) ==
    /\ calls[c].pc = "loop"
    /\ calls[c].idx < Len(calls[c].samples)
    /\ calls' = [calls EXCEPT ![c] = iterate(calls, c)]
    /\ UNCHANGED outside_calls

\* line 265: the loop of caller c is over, results is returned
CallerReturns(c) ==
    /\ calls[c].pc = "loop"
    /\ calls[c].idx = Len(calls[c].samples)
    /\ calls' = [calls EXCEPT ![c].pc = "done"]
    /\ UNCHANGED outside_calls

CallsInit == calls = [c \in Callers |-> IdleFrame]

\* the texts and the series of the calls of compute and DiveStats::compute
\* that are made while calls of compute_surface_gf are in flight
ConcurrentTexts == {"x / 1", "(1"}

ConcurrentSeries == {SquareProfile, << >>}

ConcurrentNext ==
    \/ \E c \in Callers : \E call \in ConcurrentCalls :
          CallerCalls(c, call[1], call[2], call[3])
    \/ \E c \in Callers : CallerIterates(c)
    \/ \E c \in Callers : CallerReturns(c)
    \/ fm_pc = "idle" /\ \E text \in ConcurrentTexts : \E vars \in ComputeProviders :
          Compute(text, vars)
    \/ ms_pc = "idle" /\ \E ss \in ConcurrentSeries : DiveStatsCompute(TestDive, ss)

-----------------------------------------------------------------------------
(* Claims about calls in flight together *)

C20_FramesArePrivate ==
    [][\A c \in Callers :
          (\E o \in Callers \ {c} : calls'[o] # calls[o]) => calls'[c] = calls[c]]_all_vars

C20_Interleaved ==
    /\ calls[1].pc = "done"
    /\ calls[2].pc = "loop"
    /\ calls[2].idx = 1
    /\ calls[1].current_fo2 # calls[2].current_fo2

-----------------------------------------------------------------------------
(* Calls of parse on identifiers *)

\* how an identifier starts: with a keyword in some case, with the start of
\* one, or with neither
IdentifierHeads ==
    {"", "not", "Not", "true", "TRUE", "false", "or", "and", "no", "x", "_", "if"}

\* how it goes on
IdentifierTails == {"", "es", "_depth", "der", "1", "E"}

\* the whitespace around it
IdentifierMargins == {"", " "}

IdentifierTexts ==
    {margin \o head \o tail \o margin :
        margin \in IdentifierMargins, head \in IdentifierHeads, tail \in IdentifierTails}

ParseIdentifiersNext ==
    /\ fm_pc = "idle"
    /\ \E text \in IdentifierTexts : Parse(text)

-----------------------------------------------------------------------------
(* Claims about identifiers *)

\* text matches [A-Za-z_][A-Za-z0-9_]*
IsIdentifier(text) ==
    /\ Len(text) > 0
    /\ InClass("alphabetic_", CharAt(text, 1))
    /\ \A i \in 1 .. Len(text) : InClass("alphanumeric_", CharAt(text, i))

Keywords == {"true", "false", "not"}

\* C21: a text that, trimmed, is an identifier and not one of the words true,
\* false and not in any case parses to the Variable of the trimmed text
C21_IdentifierIsVariable ==
    (/\ FormulaReturned("parse")
     /\ IsIdentifier(trim(fm_expression))
     /\ to_lowercase(trim(fm_expression)) \notin Keywords)
        => fm_out.result = Ok(Variable(trim(fm_expression)))

\* identifiers that start with none of the three words are one variable
C21_NoKeywordAtStart ==
    (/\ FormulaReturned("parse")
     /\ IsIdentifier(trim(fm_expression))
     /\ \A word \in Keywords :
           ~StartsWith(to_lowercase(trim(fm_expression)), word))
        => fm_out.result = Ok(Variable(trim(fm_expression)))

\* notes is parsed as not applied to es
C21_NotesIsNegation ==
    /\ FormulaReturned("parse")
    /\ fm_expression = "notes"
    /\ fm_out.result = Ok(Unary("Not", Variable("es")))

\* true_depth does not parse
C21_TrueDepthFails ==
    /\ FormulaReturned("parse")
    /\ fm_expression = "true_depth"
    /\ ~fm_out.result.ok

\* order is one variable
C21_OrderIsVariable ==
    /\ FormulaReturned("parse")
    /\ fm_expression = "order"
    /\ fm_out.result = Ok(Variable("order"))

-----------------------------------------------------------------------------
(* Calls that vary the time offsets, the depth and the ceiling *)

\* the longest series of these calls
MaxIntervalSamples == 3

\* seconds from a sample to the next
IntervalGaps == {0, 60, 90}

\* depth and ceiling of a sample: at the 3 m threshold and below it, with no
\* ceiling, a ceiling of 0 and a ceiling of 3 m
IntervalReadings ==
    {<<3, None>>, <<10, Some(f32_from(3))>>, <<10, Some(Zero(FALSE))>>,
     <<0, Some(f32_from(3))>>}

RECURSIVE IntervalSeriesOf(_, _, _)
IntervalSeriesOf(steps, i, t_sec) ==
    IF i > Len(steps) THEN << >>
    ELSE <<[SampleAt(t_sec + steps[i][1], steps[i][2][1]) EXCEPT
               !.ceiling_m = steps[i][2][2]]>>
            \o IntervalSeriesOf(steps, i + 1, t_sec + steps[i][1])

IntervalSeries ==
    {IntervalSeriesOf(steps, 1, 0) :
        steps \in UNION {[1 .. n -> IntervalGaps \X IntervalReadings] :
                            n \in 0 .. MaxIntervalSamples}}

\* two samples at 10 m under a ceiling, the second at the largest i32
LongSeries ==
    <<[SampleAt(0, 10) EXCEPT !.ceiling_m = Some(f32_from(3))],
      [SampleAt(I32_MAX, 10) EXCEPT !.ceiling_m = Some(f32_from(3))]>>

IntervalsNext ==
    \/ ms_pc = "idle" /\ \E ss \in IntervalSeries : DiveStatsCompute(TestDive, ss)
    \/ ms_pc = "idle" /\ DiveStatsCompute(TestDive, LongSeries)

-----------------------------------------------------------------------------
(* Claims about bottom time, deco time and the weighted average depth *)

\* the weighting interval of sample i: the time to the next sample, for the
\* last of two or more samples the time since the previous one, and 1 second
\* for an only sample
WeightOf(ss, i) ==
    IF Len(ss) = 1 THEN 1
    ELSE IF i < Len(ss) THEN ss[i + 1].t_sec - ss[i].t_sec
    ELSE ss[i].t_sec - ss[i - 1].t_sec

\* the sum of the weighting intervals of the samples whose position is in S
RECURSIVE SumOfWeights(_, _)
SumOfWeights(ss, S) ==
    IF S = {} THEN 0
    ELSE LET i == CHOOSE i \in S : TRUE
         IN  WeightOf(ss, i) + SumOfWeights(ss, S \ {i})

Below3m(ss) == {i \in 1 .. Len(ss) : f64_gt(ss[i].depth_m, f32_from(3))}

UnderCeiling(ss) ==
    {i \in 1 .. Len(ss) : ss[i].ceiling_m.some /\ f64_gt(ss[i].ceiling_m.v, Zero(FALSE))}

\* the sum of depth * weight over the first n samples, added up from the first
RECURSIVE WeightedDepths(_, _)
WeightedDepths(ss, n) ==
    IF n = 0 THEN Zero(FALSE)
    ELSE f64_add(WeightedDepths(ss, n - 1),
                 f64_mul(ss[n].depth_m, FromInt(WeightOf(ss, n))))

C22_SingleSample ==
    /\ MetricsReturned("DiveStats::compute")
    /\ Len(ms_samples) = 1
    /\ ms_out.bottom_time_sec = 1
    /\ ms_out.deco_time_sec = 1

\* the time from the first sample to the last
SpanOf(ss) == ss[Len(ss)].t_sec - ss[1].t_sec

\* C28: for two or more samples, bottom_time_sec and deco_time_sec are at
\* most the time spanned by the series, and the sums do not overflow (a sum
\* of intervals that are not negative is negative only when it has wrapped)
C28_WithinSpan ==
    (MetricsReturned("DiveStats::compute") /\ Len(ms_samples) >= 2) =>
        /\ ms_out.bottom_time_sec <= SpanOf(ms_samples)
        /\ ms_out.deco_time_sec <= SpanOf(ms_samples)
        /\ ms_out.bottom_time_sec >= 0
        /\ ms_out.deco_time_sec >= 0

\* what does hold when nothing overflows: each sum, less the last interval,
\* is at most the span
C28_WithinSpanAndLastInterval ==
    (/\ MetricsReturned("DiveStats::compute")
     /\ Len(ms_samples) >= 2
     /\ ms_samples # LongSeries) =>
        /\ ms_out.bottom_time_sec - WeightOf(ms_samples, Len(ms_samples))
              <= SpanOf(ms_samples)
        /\ ms_out.deco_time_sec - WeightOf(ms_samples, Len(ms_samples))
              <= SpanOf(ms_samples)

\* the sum of two intervals of I32_MAX seconds does not fit an i32
C28_Overflow ==
    /\ MetricsReturned("DiveStats::compute")
    /\ ms_samples = LongSeries
    /\ ms_out.bottom_time_sec = -2
    /\ ms_out.deco_time_sec = -2

-----------------------------------------------------------------------------
(* Claims about the tissue pressures of compute_surface_gf *)

\* the run has no gas table and every sample is at the surface
SurfaceRunOnAir ==
    /\ GfRunning
    /\ gas_mixes = << >>
    /\ \A k \in 1 .. Len(samples) : samples[k].depth_m = 0

\* C23: in a run without a gas table and with every sample at depth 0, the
\* inspired N2 pressure of an update is the initial N2 pressure of the
\* compartments, and after the update every compartment holds its initial
\* N2 pressure and no He
C23_SurfaceEquilibriumKept ==
    (SurfaceRunOnAir /\ inspired.some) =>
        /\ inspired.v.n2 = surface_equilibrium(surface_p).p_n2[1]
        /\ tissues = surface_equilibrium(surface_p)

\* what does hold: the inspired N2 pressure is that of the fraction
\* 1 - AIR_FO2, above the initial pressure, which is that of AIR_FN2; the
\* compartments stay between the two and hold no He
C23_BetweenInitialAndInspired ==
    (SurfaceRunOnAir /\ inspired.some) =>
        /\ inspired.v.n2 = p_inspired(surface_p, FScale - AIR_FO2)
        /\ inspired.v.n2 > surface_equilibrium(surface_p).p_n2[1]
        /\ \A i \in Compartments :
              /\ tissues.p_n2[i + 1] >= surface_equilibrium(surface_p).p_n2[i + 1]
              /\ tissues.p_n2[i + 1] <= inspired.v.n2
              /\ tissues.p_he[i + 1] = 0

\* twenty minutes at the surface on air: the first compartment has left its
\* initial pressure
C23_Drift ==
    /\ SurfaceRunOnAir
    /\ gf_pc = "done"
    /\ Len(samples) = 2
    /\ samples[2].t_sec - samples[1].t_sec = 1200
    /\ tissues.p_n2[1] > surface_equilibrium(surface_p).p_n2[1]

\* x lies between a and b, whichever of the two is greater
Between(x, a, b) == (a <= x /\ x <= b) \/ (b <= x /\ x <= a)

\* an iteration of the loop that updates the tissues is taken
UpdateStep == gf_pc = "loop" /\ idx > 0 /\ idx' = idx + 1 /\ inspired'.v.dt_sec > 0

\* C24: after every interval update each compartment's N2 pressure and He
\* pressure is not negative and lies between its value before the update and
\* the inspired pressure of the interval
C24_NoOvershoot ==
    [][UpdateStep =>
          \A i \in Compartments :
             /\ tissues'.p_n2[i + 1] >= 0
             /\ tissues'.p_he[i + 1] >= 0
             /\ Between(tissues'.p_n2[i + 1], tissues.p_n2[i + 1], inspired'.v.n2)
             /\ Between(tissues'.p_he[i + 1], tissues.p_he[i + 1], inspired'.v.he)]_all_vars

\* after twenty minutes at 30 m on trimix the first compartment holds He,
\* less than is inspired, and the last compartment holds more N2 than at
\* the start
C24_Witness ==
    /\ gf_pc = "done"
    /\ gas_mixes = <<Trimix, Ean50>>
    /\ Len(samples) = 2
    /\ samples[1].t_sec = 0
    /\ samples[2].t_sec = 1200
    /\ samples[1].depth_m = 30
    /\ samples[2].depth_m = 30
    /\ \A k \in 1 .. 2 : samples[k].gasmix_index = None
    /\ tissues.p_he[1] > 0
    /\ tissues.p_he[1] < inspired.v.he
    /\ tissues.p_n2[16] > surface_equilibrium(surface_p).p_n2[16]

\* C25: every point has a surface_gf that is not negative and a
\* leading_compartment in 0..15; the point of a tissue state in which no
\* compartment has a gradient factor above 0, as the state at surface
\* equilibrium of the first point, is surface_gf 0 with leading_compartment 0
C25_PointsInRange ==
    GfRunning =>
        /\ \A k \in 1 .. Len(results) :
              /\ results[k].surface_gf >= 0
              /\ results[k].leading_compartment \in Compartments
        /\ Len(results) >= 1 =>
              /\ results[1].surface_gf = 0
              /\ results[1].leading_compartment = 0
              /\ (\A i \in Compartments : compartment_gf(tissues, i, surface_p) <= 0) =>
                    /\ results[Len(results)].surface_gf = 0
                    /\ results[Len(results)].leading_compartment = 0

\* a run whose first point is 0 with compartment 0 and whose second point
\* has a positive surface_gf, before a third sample is visited
C25_Witness ==
    /\ gf_pc = "loop"
    /\ Len(samples) = 3
    /\ Len(results) = 2
    /\ results[1].surface_gf = 0
    /\ results[1].leading_compartment = 0
    /\ results[2].surface_gf > 0
    /\ \E i \in Compartments : compartment_gf(tissues, i, surface_p) < 0

\* a run at the surface: no compartment is above 0 and the last point is 0
C25_AllBelowZero ==
    /\ gf_pc = "done"
    /\ Len(results) = 2
    /\ samples[2].t_sec > samples[1].t_sec
    /\ \A i \in Compartments : compartment_gf(tissues, i, surface_p) < 0
    /\ results[2].surface_gf = 0

-----------------------------------------------------------------------------
(* ast.rs: BinaryOp::precedence, and the claim that parse groups by it *)

precedence(self) ==
    CASE self = "Or" -> 1
      [] self = "And" -> 2
      [] self \in {"Eq", "Neq"} -> 3
      [] self \in {"Gt", "Lt", "Gte", "Lte"} -> 4
      [] self \in {"Add", "Sub"} -> 5
      [] self \in {"Mul", "Div"} -> 6

\* the tree that precedence() gives a p b q c: the operator of the higher
\* value is the inner node, the left one when the values are equal
GroupedByPrecedence(p, q) ==
    IF precedence(OperatorOf(q)) > precedence(OperatorOf(p))
    THEN Binary(OperatorOf(p), Variable("a"),
                Binary(OperatorOf(q), Variable("b"), Variable("c")))
    ELSE Binary(OperatorOf(q),
                Binary(OperatorOf(p), Variable("a"), Variable("b")),
                Variable("c"))

\* C26: for binary operators p and q, the text a p b q c parses to the tree
\* in which the operator with the strictly higher precedence() is the inner
\* node, and p is when the two values are equal
C26_GroupsByPrecedence ==
    FormulaReturned("parse") =>
        \A p \in BinaryOperators, q \in BinaryOperators :
           fm_expression = Join(<<"a", p, "b", q, "c">>) =>
              fm_out.result = Ok(GroupedByPrecedence(p, q))

\* the same for every pair but an equality operator followed by a relational
\* operator
C26_ButEqualityBeforeRelational ==
    FormulaReturned("parse") =>
        \A p \in BinaryOperators, q \in BinaryOperators :
           (/\ fm_expression = Join(<<"a", p, "b", q, "c">>)
            /\ ~(p \in {"==", "!="} /\ q \in {">", "<", ">=", "<="})) =>
              fm_out.result = Ok(GroupedByPrecedence(p, q))

\* a == b > c is parsed as (a == b) > c, although precedence() is higher
\* for > than for ==
C26_EqualityInner ==
    /\ FormulaReturned("parse")
    /\ fm_expression = "a == b > c"
    /\ precedence("Gt") > precedence("Eq")
    /\ fm_out.result =
          Ok(Binary("Gt", Binary("Eq", Variable("a"), Variable("b")), Variable("c")))

-----------------------------------------------------------------------------
(* Claims about compute on a text that validate_with_variables accepts *)

\* the texts of the calls of validate_with_variables, and divisions
ComputeTexts ==
    VariableTexts \cup {l \o " / " \o r : l \in TextOperands, r \in TextOperands}

\* providers: none of the names; x = 0 and y = 2; x = 2, y = 0 and z = 1.5
VariableProviders ==
    {<< >>,
     [name \in {"x", "y"} |-> IF name = "x" THEN Zero(FALSE) ELSE FromInt(2)],
     [name \in {"x", "y", "z"} |->
         IF name = "x" THEN FromInt(2)
         ELSE IF name = "y" THEN Zero(FALSE) ELSE OneAndHalf]}

ComputeValidatedNext ==
    /\ fm_pc = "idle"
    /\ \E text \in ComputeTexts : \E vars \in VariableProviders : Compute(text, vars)

\* the errors that evaluate returns for the functions and the division
ErrorsOfEvaluation == {"UnknownFunction", "InvalidArgCount", "DivisionByZero"}

\* validate_with_variables accepts the text with names the provider resolves
Validated(text, vars) ==
    \E names \in SUBSET DOMAIN vars : validate_with_variables(text, names).ok

\* C27: when validate_with_variables(text, names) succeeds and the provider
\* resolves every name of names, compute(text, provider) returns a number or
\* fails with UnknownFunction, InvalidArgCount or DivisionByZero; it does not
\* fail with EmptyExpression, ParseError or UnknownVariable
C27_ValidatedComputes ==
    (FormulaReturned("compute") /\ Validated(fm_expression, fm_vars)) =>
        \/ fm_out.result.ok
        \/ fm_out.result.err.error \in ErrorsOfEvaluation

\* foo(x, x ? y : z) is accepted with x, y and z, and compute fails with
\* UnknownFunction after it has read x
C27_Witness ==
    /\ FormulaReturned("compute")
    /\ fm_expression = "foo(x, x ? y : z)"
    /\ validate_with_variables(fm_expression, {"x", "y", "z"}).ok
    /\ DOMAIN fm_vars = {"x", "y", "z"}
    /\ fm_out.result.ok = FALSE
    /\ fm_out.result.err.error = "UnknownFunction"

\* 1 / x is accepted with x and compute fails with DivisionByZero for x = 0
C27_DivisionByZero ==
    /\ FormulaReturned("compute")
    /\ fm_expression = "1 / x"
    /\ Validated(fm_expression, fm_vars)
    /\ fm_out.result = Err(DivisionByZero)

\* min(x) is accepted with x and compute fails with InvalidArgCount
C27_InvalidArgCount ==
    /\ FormulaReturned("compute")
    /\ fm_expression = "min(x)"
    /\ Validated(fm_expression, fm_vars)
    /\ fm_out.result.ok = FALSE
    /\ fm_out.result.err.error = "InvalidArgCount"

\* x ? y : z is not accepted with x and y only, and compute fails with
\* UnknownVariable when x = 0 selects the else branch
C27_NotValidated ==
    /\ FormulaReturned("compute")
    /\ fm_expression = "x ? y : z"
    /\ ~Validated(fm_expression, fm_vars)
    /\ fm_out.result = Err(UnknownVariable("z"))

-----------------------------------------------------------------------------
(* ensure_schema, migrations.rs.  The database is what is committed: the    *)
(* scripts that have run, each whole or in part, and the versions of        *)
(* schema_migrations.  A transaction works on a copy that commit installs   *)
(* and a drop without commit discards.                                      *)

\* the most calls of ensure_schema in a run
MaxEnsureCalls == 3

\* the chars of the file names in the order of their bytes
ByteOrder == "+-.0123456789_abcdefghijklmnopqrstuvwxyz"

\* Ord of two paths of one directory: the file names, byte by byte
RECURSIVE path_lt(_, _)
path_lt(a, b) ==
    IF b = "" THEN FALSE
    ELSE IF a = "" THEN TRUE
    ELSE IF CharAt(a, 1) # CharAt(b, 1)
    THEN IndexOf(ByteOrder, CharAt(a, 1)) < IndexOf(ByteOrder, CharAt(b, 1))
    ELSE path_lt(SubSeq(a, 2, Len(a)), SubSeq(b, 2, Len(b)))

\* the position of the last c in s, 0 when there is none
LastIndexOf(s, c) ==
    IF \E i \in 1 .. Len(s) : CharAt(s, i) = c
    THEN CHOOSE i \in 1 .. Len(s) :
            CharAt(s, i) = c /\ \A j \in i + 1 .. Len(s) : CharAt(s, j) # c
    ELSE 0

\* Path::extension: what follows the last dot, None for no dot or a leading dot
extension(name) ==
    IF LastIndexOf(name, ".") <= 1 THEN None
    ELSE Some(SubSeq(name, LastIndexOf(name, ".") + 1, Len(name)))

\* Path::file_stem: what precedes the last dot
file_stem(name) ==
    IF LastIndexOf(name, ".") <= 1 THEN name
    ELSE SubSeq(name, 1, LastIndexOf(name, ".") - 1)

\* the value of a string of digits
RECURSIVE digits_value(_)
digits_value(s) ==
    IF s = "" THEN 0
    ELSE 10 * digits_value(SubSeq(s, 1, Len(s) - 1))
         + (IndexOf("0123456789", CharAt(s, Len(s))) - 1)

\* str::parse::<i64>: an optional sign and one digit or more
parse_i64(s) ==
    LET signed == s # "" /\ CharAt(s, 1) \in {"+", "-"}
        digits == IF signed THEN SubSeq(s, 2, Len(s)) ELSE s
    IN  IF digits = "" \/ \E i \in 1 .. Len(digits) : CharAt(digits, i) \notin DigitChars
        THEN None
        ELSE IF signed /\ CharAt(s, 1) = "-" THEN Some(0 - digits_value(digits))
        ELSE Some(digits_value(digits))

\* lines 26-31: the stem up to its first "_", parsed, 0 when that fails
version_of(name) ==
    LET stem == file_stem(name)
        k == IndexOf(stem, "_")
        first == IF k = 0 THEN stem ELSE SubSeq(stem, 1, k - 1)
    IN  IF parse_i64(first).some THEN parse_i64(first).v ELSE 0

\* entries.sort_by_key(|e| e.path()) of the names of a directory
RECURSIVE sort_by_path(_)
sort_by_path(names) ==
    IF names = {} THEN << >>
    ELSE LET first == CHOOSE n \in names : \A m \in names \ {n} : path_lt(n, m)
         IN  <<first>> \o sort_by_path(names \ {first})

\* lines 16-22: the files of the directory with the extension sql, sorted
read_entries(dir) == sort_by_path({n \in dir : extension(n) = Some("sql")})

\* SELECT COALESCE(MAX(version), 0) FROM schema_migrations
max_version(versions) ==
    IF versions = {} THEN 0 ELSE CHOOSE v \in versions : \A w \in versions : w <= v

\* a drop of tx without commit, as the ? of lines 39-44 does: the database
\* stays what it was; and a connection without the transaction, for comparison
autocommit(db, uncommitted) == uncommitted

rollback(db, uncommitted) == db

\* the error of a script, of the INSERT or of the commit
SqliteFailure == [error |-> "SqliteFailure"]

EmptyDatabase == [scripts |-> << >>, schema_migrations |-> {}]

\* the files of the migrations: versions 2 and 10, two files of version 3, a
\* name without a number, a file that is no script, and versions 2 and 10
\* with zeros before them
Files ==
    {"2_a.sql", "10_b.sql", "3_c.sql", "3_d.sql", "x.sql", "9_f.txt",
     "002_g.sql", "010_h.sql"}

Directories ==
    {{}, {"2_a.sql"}, {"2_a.sql", "10_b.sql"}, {"2_a.sql", "3_c.sql", "9_f.txt"},
     {"2_a.sql", "3_c.sql", "3_d.sql", "9_f.txt"},
     {"2_a.sql", "3_c.sql", "x.sql", "9_f.txt"},
     {"002_g.sql"}, {"002_g.sql", "010_h.sql"}}

MigrationsInit ==
    /\ mg_pc = "idle"
    /\ directory = {}
    /\ database = EmptyDatabase
    /\ current = 0
    /\ entries = << >>
    /\ entry = 1
    /\ tx = None
    /\ executed = << >>
    /\ mg_calls = 0
    /\ mg_out = Ok(Unit)

\* lines 7-22: the table, current, and the sorted entries of the directory,
\* to which files may have been added since the last call
EnsureSchemaStart(dir) ==
    /\ mg_pc = "idle"
    /\ mg_calls < MaxEnsureCalls
    /\ directory \subseteq dir
    /\ mg_pc' = "loop"
    /\ mg_calls' = mg_calls + 1
    /\ directory' = dir
    /\ current' = max_version(database.schema_migrations)
    /\ entries' = read_entries(dir)
    /\ entry' = 1
    /\ executed' = << >>
    /\ UNCHANGED <<database, tx, mg_out>>
    /\ UNCHANGED outside_mg

\* lines 32-34: a version that is not above current is passed over
EnsureSchemaContinue ==
    /\ mg_pc = "loop"
    /\ entry <= Len(entries)
    /\ version_of(entries[entry]) <= current
    /\ entry' = entry + 1
    /\ UNCHANGED <<mg_pc, directory, database, current, entries, tx, executed,
                   mg_calls, mg_out>>
    /\ UNCHANGED outside_mg

\* lines 35-39: the transaction is opened and the script runs in it, to its
\* end or to the statement that fails
EnsureSchemaBatch(whole) ==
    /\ mg_pc = "loop"
    /\ entry <= Len(entries)
    /\ version_of(entries[entry]) > current
    /\ executed' = Append(executed, entries[entry])
    /\ LET ran == [database EXCEPT
                     !.scripts = Append(@, [file |-> entries[entry], whole |-> whole])]
       IN  IF whole
           THEN /\ tx' = Some(ran)
                /\ mg_pc' = "insert"
                /\ UNCHANGED <<database, mg_out>>
           ELSE /\ database' = rollback(database, ran)
                /\ tx' = None
                /\ mg_pc' = "idle"
                /\ mg_out' = Err(SqliteFailure)
    /\ UNCHANGED <<directory, current, entries, entry, mg_calls>>
    /\ UNCHANGED outside_mg

\* lines 40-43: the version is inserted, which the primary key refuses for a
\* version that is there
EnsureSchemaInsert ==
    /\ mg_pc = "insert"
    /\ LET version == version_of(entries[entry])
           inserted == [tx.v EXCEPT !.schema_migrations = @ \cup {version}]
       IN  IF version \in tx.v.schema_migrations
           THEN /\ database' = rollback(database, tx.v)
                /\ tx' = None
                /\ mg_pc' = "idle"
                /\ mg_out' = Err(SqliteFailure)
           ELSE /\ tx' = Some(inserted)
                /\ mg_pc' = "commit"
                /\ UNCHANGED <<database, mg_out>>
    /\ UNCHANGED <<directory, current, entries, entry, executed, mg_calls>>
    /\ UNCHANGED outside_mg

\* line 44: the commit, which installs the transaction or fails
EnsureSchemaCommit(committed) ==
    /\ mg_pc = "commit"
    /\ tx' = None
    /\ IF committed
       THEN /\ database' = tx.v
            /\ entry' = entry + 1
            /\ mg_pc' = "loop"
            /\ UNCHANGED mg_out
       ELSE /\ database' = rollback(database, tx.v)
            /\ mg_pc' = "idle"
            /\ mg_out' = Err(SqliteFailure)
            /\ UNCHANGED entry
    /\ UNCHANGED <<directory, current, entries, executed, mg_calls>>
    /\ UNCHANGED outside_mg

\* line 47: Ok(()) after the last entry
EnsureSchemaReturn ==
    /\ mg_pc = "loop"
    /\ entry > Len(entries)
    /\ mg_pc' = "idle"
    /\ mg_out' = Ok(Unit)
    /\ UNCHANGED <<directory, database, current, entries, entry, tx, executed,
                   mg_calls>>
    /\ UNCHANGED outside_mg

MigrationsNext ==
    \/ mg_pc = "idle" /\ \E dir \in Directories : EnsureSchemaStart(dir)
    \/ mg_pc = "loop" /\ EnsureSchemaContinue
    \/ mg_pc = "loop" /\ \E whole \in BOOLEAN : EnsureSchemaBatch(whole)
    \/ mg_pc = "insert" /\ EnsureSchemaInsert
    \/ mg_pc = "commit" /\ \E committed \in BOOLEAN : EnsureSchemaCommit(committed)
    \/ mg_pc = "loop" /\ EnsureSchemaReturn

-----------------------------------------------------------------------------
(* Claims about ensure_schema *)

\* ensure_schema has returned
EnsureSchemaReturned == mg_pc = "idle" /\ mg_calls > 0

\* the migration files of the directory that were pending at the start of
\* the call: the scripts with a version above current
Pending == {n \in directory : extension(n) = Some("sql") /\ version_of(n) > current}

\* the number of times the call has executed the script of a file
TimesExecuted(n) == Cardinality({i \in 1 .. Len(executed) : executed[i] = n})

\* C29: a call of ensure_schema executes the scripts in strictly ascending
\* order of their versions, and when it has returned Ok it has executed every
\* migration file of a version above the highest recorded before the call
\* exactly once
C29_AscendingVersionsEachOnce ==
    /\ \A i \in 1 .. Len(executed) : \A j \in i + 1 .. Len(executed) :
          version_of(executed[i]) < version_of(executed[j])
    /\ (EnsureSchemaReturned /\ mg_out.ok) =>
          \A n \in Pending : TimesExecuted(n) = 1

\* the order in which the scripts are executed is that of the paths, and
\* after Ok every pending file has been executed once and no other file
C29_AscendingPathsEachOnce ==
    /\ \A i \in 1 .. Len(executed) : \A j \in i + 1 .. Len(executed) :
          path_lt(executed[i], executed[j])
    /\ \A i \in 1 .. Len(executed) : executed[i] \in Pending
    /\ (EnsureSchemaReturned /\ mg_out.ok) =>
          \A n \in Pending : TimesExecuted(n) = 1

\* version 10 has run before version 2, and the call has returned Ok
C29_TenBeforeTwo ==
    /\ EnsureSchemaReturned
    /\ mg_out.ok
    /\ executed = <<"10_b.sql", "2_a.sql">>
    /\ database.schema_migrations = {2, 10}

\* with names of one width, 002 and 010, version 2 runs before version 10
C29_PaddedInOrder ==
    /\ EnsureSchemaReturned
    /\ mg_out.ok
    /\ executed = <<"002_g.sql", "010_h.sql">>
    /\ database.schema_migrations = {2, 10}

\* the versions of the scripts that the database holds as run to their end
AppliedVersions ==
    {version_of(database.scripts[i].file) :
        i \in {j \in 1 .. Len(database.scripts) : database.scripts[j].whole}}

\* C30: at every point of every sequence of calls, the versions recorded in
\* schema_migrations are those of the scripts applied to their end, no script
\* is applied in part, no version and no file is applied twice, and a call
\* that found no file of a version above current has executed no script
C30_RecordedIffApplied ==
    /\ database.schema_migrations = AppliedVersions
    /\ \A i \in 1 .. Len(database.scripts) : database.scripts[i].whole
    /\ \A i \in 1 .. Len(database.scripts) : \A j \in i + 1 .. Len(database.scripts) :
          /\ version_of(database.scripts[i].file) # version_of(database.scripts[j].file)
          /\ database.scripts[i].file # database.scripts[j].file
    /\ (\A i \in 1 .. Len(entries) : version_of(entries[i]) <= current) =>
          executed = << >>

\* the second call, made after a call that recorded nothing, has applied
\* version 2 and failed at version 3: version 2 is recorded and applied once,
\* of version 3 there is neither the script nor the record
C30_Witness ==
    /\ EnsureSchemaReturned
    /\ mg_calls = 2
    /\ ~mg_out.ok
    /\ current = 0
    /\ executed = <<"2_a.sql", "3_c.sql">>
    /\ database = [scripts |-> <<[file |-> "2_a.sql", whole |-> TRUE]>>,
                   schema_migrations |-> {2}]

\* a call that finds nothing pending executes nothing and returns Ok
C30_NothingPending ==
    /\ EnsureSchemaReturned
    /\ mg_out.ok
    /\ current = 3
    /\ directory = {"2_a.sql", "3_c.sql", "x.sql", "9_f.txt"}
    /\ executed = << >>
    /\ database.schema_migrations = {2, 3}

\* the second file of version 3 is executed and refused at the INSERT: its
\* script is not applied, and the next call passes it over
C30_SecondOfVersion ==
    /\ EnsureSchemaReturned
    /\ ~mg_out.ok
    /\ executed = <<"2_a.sql", "3_c.sql", "3_d.sql">>
    /\ database.schema_migrations = {2, 3}
    /\ Len(database.scripts) = 2

\* version 10 was applied by a call that failed at version 2, which ran
\* after it: the later calls pass version 2 over for good
C30_TwoPassedOver ==
    /\ EnsureSchemaReturned
    /\ mg_out.ok
    /\ mg_calls > 1
    /\ current = 10
    /\ "2_a.sql" \in directory
    /\ executed = << >>
    /\ database.schema_migrations = {10}

-----------------------------------------------------------------------------

Init ==
    GfInit /\ EvalInit /\ FormulaInit /\ MetricsInit /\ CallsInit /\ MigrationsInit

\* calls of compute_surface_gf
SpecSurfaceGf == Init /\ [][GfNext]_all_vars

\* calls of evaluate
SpecEvaluate == Init /\ [][EvalNext]_all_vars

\* calls of parse, validate and compute
SpecFormula == Init /\ [][FormulaNext]_all_vars

\* calls of parse on sequences of operands and operators
SpecParseOperators == Init /\ [][ParseOperatorsNext]_all_vars

\* calls of DiveStats::compute on series that vary in time and depth
SpecRates == Init /\ [][RatesNext]_all_vars

\* calls of DiveStats::compute on series that vary in gas-mix index and setpoint
SpecGasSwitch == Init /\ [][GasSwitchNext]_all_vars

\* calls of SegmentStats::compute
SpecSegment == Init /\ [][SegmentNext]_all_vars

\* calls of compute_surface_gf, compute and DiveStats::compute in flight together
SpecConcurrent == Init /\ [][ConcurrentNext]_all_vars

\* calls of parse on identifiers
SpecParseIdentifiers == Init /\ [][ParseIdentifiersNext]_all_vars

\* calls of DiveStats::compute on series that vary in time, depth and ceiling
SpecIntervals == Init /\ [][IntervalsNext]_all_vars

\* calls of compute on the texts of validate_with_variables
SpecComputeValidated == Init /\ [][ComputeValidatedNext]_all_vars

\* calls of ensure_schema, one after the other
SpecMigrations == Init /\ [][MigrationsNext]_all_vars

\* calls of validate_with_variables
SpecValidateVariables == Init /\ [][ValidateVariablesNext]_all_vars

\* one call of evaluate, or of compute on a sequence of operands and operators
SpecCoercion == Init /\ [][CoercionNext]_all_vars

=============================================================================
